---- MODULE Spec2Model ----
(***************************************************************************)
(* Beam analysis engine of beam_solver (src/src/utils/beamCalculations.ts) *)
(* as a state machine: an input triple (beamData, supports, loads) is      *)
(* drawn, and calculateBeamAnalysis computes the AnalysisResult from it.   *)
(*                                                                         *)
(* Numbers.  A JavaScript number is modelled as an exact rational          *)
(* [n |-> numerator, d |-> denominator] in lowest terms with d > 0; the    *)
(* three IEEE special values are the records with d = 0: +Infinity (n = 1),*)
(* -Infinity (n = -1) and NaN (n = 0).  Rounding of floating point         *)
(* arithmetic is not modelled, and the sign of zero is not modelled.       *)
(***************************************************************************)
EXTENDS Integers, Sequences, FiniteSets, TLC

VARIABLES beamData, supports, loads, result, pc

vars == <<beamData, supports, loads, result, pc>>

(***************************************************************************)
(* Arithmetic of JavaScript numbers                                        *)
(***************************************************************************)
AbsInt(i) == IF i < 0 THEN -i ELSE i

SignInt(i) == IF i < 0 THEN -1 ELSE IF i > 0 THEN 1 ELSE 0

RECURSIVE GCD(_, _)
GCD(a, b) == IF b = 0 THEN a ELSE GCD(b, a % b)

\* The number n/d (d # 0) in lowest terms with a positive denominator.
Rat(n, d) ==
    LET g == GCD(AbsInt(n), AbsInt(d))
        s == IF d < 0 THEN -1 ELSE 1
    IN  [n |-> s * (n \div g), d |-> s * (d \div g)]

Num(i) == [n |-> i, d |-> 1]

Zero == Num(0)

NaN == [n |-> 0, d |-> 0]

PosInf == [n |-> 1, d |-> 0]

NegInf == [n |-> -1, d |-> 0]

\* An optional field that is absent is a field the record does not have.
Has(r, f) == f \in DOMAIN r

IsNaN(x) == x.d = 0 /\ x.n = 0

IsInf(x) == x.d = 0 /\ x.n # 0

IsFinite(x) == x.d # 0

Sign(x) == SignInt(x.n)

Neg(x) == [n |-> -x.n, d |-> x.d]

\* x + y
Add(x, y) ==
    IF IsNaN(x) \/ IsNaN(y) THEN NaN
    ELSE IF IsInf(x) THEN (IF IsInf(y) /\ x.n # y.n THEN NaN ELSE x)
    ELSE IF IsInf(y) THEN y
    ELSE LET g == GCD(x.d, y.d)
         IN  Rat(x.n * (y.d \div g) + y.n * (x.d \div g), (x.d \div g) * y.d)

\* x - y
Sub(x, y) == Add(x, Neg(y))

\* x * y
Mul(x, y) ==
    IF IsNaN(x) \/ IsNaN(y) THEN NaN
    ELSE IF IsInf(x) \/ IsInf(y)
         THEN (IF Sign(x) * Sign(y) = 0 THEN NaN
               ELSE [n |-> Sign(x) * Sign(y), d |-> 0])
    ELSE LET g1 == GCD(AbsInt(x.n), y.d)
             g2 == GCD(AbsInt(y.n), x.d)
         IN  Rat((x.n \div g1) * (y.n \div g2), (x.d \div g2) * (y.d \div g1))

\* x / y: a finite nonzero number over zero is an infinity, 0/0 is NaN.
Div(x, y) ==
    IF IsNaN(x) \/ IsNaN(y) THEN NaN
    ELSE IF IsInf(x)
         THEN (IF IsInf(y) THEN NaN
               ELSE [n |-> x.n * (IF Sign(y) < 0 THEN -1 ELSE 1), d |-> 0])
    ELSE IF IsInf(y) THEN Zero
    ELSE IF y.n = 0
         THEN (IF x.n = 0 THEN NaN ELSE [n |-> Sign(x), d |-> 0])
    ELSE Mul(x, Rat(y.d, y.n))

\* x < y; every comparison with NaN is false.
Lt(x, y) ==
    /\ ~IsNaN(x)
    /\ ~IsNaN(y)
    /\ IF IsInf(x) \/ IsInf(y)
       THEN (IF IsInf(x) /\ IsInf(y) THEN x.n < y.n
             ELSE IF IsInf(x) THEN x.n < 0 ELSE y.n > 0)
       ELSE LET g == GCD(x.d, y.d)
            IN  x.n * (y.d \div g) < y.n * (x.d \div g)

\* x > y
Gt(x, y) == Lt(y, x)

\* x === y
Eq(x, y) == ~IsNaN(x) /\ ~IsNaN(y) /\ x = y

\* x <= y
Le(x, y) == Lt(x, y) \/ Eq(x, y)

\* x >= y
Ge(x, y) == Le(y, x)

\* Math.abs(x)
Abs(x) == [n |-> AbsInt(x.n), d |-> x.d]

\* Math.max(x, y) and Math.min(x, y)
Max(x, y) == IF IsNaN(x) \/ IsNaN(y) THEN NaN ELSE IF Lt(x, y) THEN y ELSE x

Min(x, y) == IF IsNaN(x) \/ IsNaN(y) THEN NaN ELSE IF Lt(y, x) THEN y ELSE x

\* The operand test of JavaScript's || : undefined, NaN and 0 are falsy.
Falsy(x) == IsNaN(x) \/ (x.d # 0 /\ x.n = 0)

\* x || y
OrElse(x, y) == IF Falsy(x) THEN y ELSE x

\* r.f || y for an optional field f
FieldOr(r, f, y) == IF Has(r, f) THEN OrElse(r[f], y) ELSE y

\* The square root of 1 / 1e-10, the threshold of the reaction solver.
EpsRootInv == 100000

\* x > 1e-10 for x >= 0, that is n * 1e10 > d, computed without overflow.
GtEps(x) ==
    IF IsNaN(x) THEN FALSE
    ELSE IF IsInf(x) THEN x.n > 0
    ELSE \/ x.n > x.d \div EpsRootInv
         \/ x.n * EpsRootInv > x.d \div EpsRootInv

\* The sum of a sequence of numbers, accumulated from 0 as forEach does.
RECURSIVE SumSeq(_)
SumSeq(s) == IF s = <<>> THEN Zero ELSE Add(SumSeq(SubSeq(s, 1, Len(s) - 1)), s[Len(s)])

\* The array whose entries are the values of the function f on 1..n, each
\* computed once.
Array(f) == <<>> \o f

(***************************************************************************)
(* Unit tables, src/src/utils/beamCalculations.ts:10-24                    *)
(***************************************************************************)
BASE_UNITS == [length |-> "m", force |-> "N"]

LENGTH_CONVERSIONS ==
    [u \in {"m", "mm", "ft"} |->
        CASE u = "m" -> Num(1)
          [] u = "mm" -> Rat(1, 1000)
          [] u = "ft" -> Rat(3048, 10000)]

FORCE_CONVERSIONS ==
    [u \in {"N", "kN", "kips"} |->
        CASE u = "N" -> Num(1)
          [] u = "kN" -> Num(1000)
          [] u = "kips" -> Rat(444822, 100)]

UNIT_PAIRS ==
    { [length |-> "m", force |-> "kN"],
      [length |-> "mm", force |-> "kN"],
      [length |-> "m", force |-> "N"],
      [length |-> "mm", force |-> "N"],
      [length |-> "ft", force |-> "kips"] }

convertLength(value, fromUnit, toUnit) ==
    LET fromFactor == IF fromUnit \in DOMAIN LENGTH_CONVERSIONS
                      THEN OrElse(LENGTH_CONVERSIONS[fromUnit], Num(1)) ELSE Num(1)
        toFactor == IF toUnit \in DOMAIN LENGTH_CONVERSIONS
                    THEN OrElse(LENGTH_CONVERSIONS[toUnit], Num(1)) ELSE Num(1)
    IN  Div(Mul(value, fromFactor), toFactor)

convertForce(value, fromUnit, toUnit) ==
    LET fromFactor == IF fromUnit \in DOMAIN FORCE_CONVERSIONS
                      THEN OrElse(FORCE_CONVERSIONS[fromUnit], Num(1)) ELSE Num(1)
        toFactor == IF toUnit \in DOMAIN FORCE_CONVERSIONS
                    THEN OrElse(FORCE_CONVERSIONS[toUnit], Num(1)) ELSE Num(1)
    IN  Div(Mul(value, fromFactor), toFactor)

convertLoadsToBaseUnits(ld, units) ==
    LET oneLen == convertLength(Num(1), units.length, BASE_UNITS.length)
    IN  [ point |-> Array([i \in 1..Len(ld.point) |->
            [ld.point[i] EXCEPT
               !.x = convertLength(@, units.length, BASE_UNITS.length),
               !.P = convertForce(@, units.force, BASE_UNITS.force)]]),
          angled |-> Array([i \in 1..Len(ld.angled) |->
            [ld.angled[i] EXCEPT
               !.x = convertLength(@, units.length, BASE_UNITS.length),
               !.P = convertForce(@, units.force, BASE_UNITS.force)]]),
          udl |-> Array([i \in 1..Len(ld.udl) |->
            [ld.udl[i] EXCEPT
               !.a = convertLength(@, units.length, BASE_UNITS.length),
               !.b = convertLength(@, units.length, BASE_UNITS.length),
               !.w = Div(convertForce(@, units.force, BASE_UNITS.force), oneLen)]]),
          uvl |-> Array([i \in 1..Len(ld.uvl) |->
            [ld.uvl[i] EXCEPT
               !.a = convertLength(@, units.length, BASE_UNITS.length),
               !.b = convertLength(@, units.length, BASE_UNITS.length),
               !.w1 = Div(convertForce(@, units.force, BASE_UNITS.force), oneLen),
               !.w2 = Div(convertForce(@, units.force, BASE_UNITS.force), oneLen)]]),
          moment |-> Array([i \in 1..Len(ld.moment) |->
            [ld.moment[i] EXCEPT
               !.x = convertLength(@, units.length, BASE_UNITS.length),
               !.M = Mul(convertForce(@, units.force, BASE_UNITS.force), oneLen)]]) ]

convertSupportsToBaseUnits(sup, lengthUnit) ==
    IF sup.type = "pin+roller"
    THEN [f \in DOMAIN sup \cup {"pin_x", "roller_x"} |->
            CASE f = "pin_x" ->
                   convertLength(FieldOr(sup, "pin_x", Zero), lengthUnit, BASE_UNITS.length)
              [] f = "roller_x" ->
                   convertLength(FieldOr(sup, "roller_x", Zero), lengthUnit, BASE_UNITS.length)
              [] OTHER -> sup[f]]
    ELSE sup

validateSupports(sup, length) ==
    IF sup.type = "pin+roller"
    THEN LET pin_x == FieldOr(sup, "pin_x", Zero)
             roller_x == FieldOr(sup, "roller_x", length)
         IN  Ge(pin_x, Zero) /\ Le(roller_x, length) /\ ~Eq(pin_x, roller_x)
    ELSE TRUE

(***************************************************************************)
(* Reaction solver                                                         *)
(***************************************************************************)
\* Math.sin(theta_deg * Math.PI / 180) and Math.cos of it, for the quadrant
\* angles, whose values are taken as the exact 0, 1 and -1.
SinDeg(theta) ==
    CASE theta = Num(0) -> Zero
      [] theta = Num(90) -> Num(1)
      [] theta = Num(180) -> Zero
      [] theta = Num(270) -> Num(-1)

CosDeg(theta) ==
    CASE theta = Num(0) -> Num(1)
      [] theta = Num(90) -> Zero
      [] theta = Num(180) -> Num(-1)
      [] theta = Num(270) -> Zero

\* Vertical component of an angled load.
Py(load) == Mul(load.P, SinDeg(load.theta_deg))

\* Horizontal component of an angled load.
Px(load) == Mul(load.P, CosDeg(load.theta_deg))

\* Resultant of a UDL and of a UVL, and the position of their line of action.
UdlR(load) == Mul(load.w, Sub(load.b, load.a))

UdlXR(load) == Div(Add(load.a, load.b), Num(2))

UvlR(load) == Div(Mul(Add(load.w1, load.w2), Sub(load.b, load.a)), Num(2))

UvlXR(load) ==
    Add(load.a,
        Div(Mul(Sub(load.b, load.a), Add(load.w1, Mul(Num(2), load.w2))),
            Mul(Num(3), Add(load.w1, load.w2))))

\* totalVerticalForce of both branches of calculateReactions.
totalVerticalForce(ld) ==
    SumSeq([i \in 1..Len(ld.point) |-> ld.point[i].P]
           \o [i \in 1..Len(ld.angled) |-> Py(ld.angled[i])]
           \o [i \in 1..Len(ld.udl) |-> UdlR(ld.udl[i])]
           \o [i \in 1..Len(ld.uvl) |->
                 IF GtEps(Abs(Add(ld.uvl[i].w1, ld.uvl[i].w2)))
                 THEN UvlR(ld.uvl[i]) ELSE Zero])

\* Variant of totalMomentAbout without the guard on |w1 + w2| of a UVL.
totalMomentAbout_unguarded(ld, x0) ==
    SumSeq([i \in 1..Len(ld.point) |-> Mul(ld.point[i].P, Sub(ld.point[i].x, x0))]
           \o [i \in 1..Len(ld.angled) |-> Mul(Py(ld.angled[i]), Sub(ld.angled[i].x, x0))]
           \o [i \in 1..Len(ld.udl) |-> Mul(UdlR(ld.udl[i]), Sub(UdlXR(ld.udl[i]), x0))]
           \o [i \in 1..Len(ld.uvl) |-> Mul(UvlR(ld.uvl[i]), Sub(UvlXR(ld.uvl[i]), x0))])

\* totalMomentAboutPin / totalMomentAboutFixed without the applied moments.
totalMomentAbout(ld, x0) ==
    SumSeq([i \in 1..Len(ld.point) |-> Mul(ld.point[i].P, Sub(ld.point[i].x, x0))]
           \o [i \in 1..Len(ld.angled) |-> Mul(Py(ld.angled[i]), Sub(ld.angled[i].x, x0))]
           \o [i \in 1..Len(ld.udl) |-> Mul(UdlR(ld.udl[i]), Sub(UdlXR(ld.udl[i]), x0))]
           \o [i \in 1..Len(ld.uvl) |->
                 IF GtEps(Abs(Add(ld.uvl[i].w1, ld.uvl[i].w2)))
                 THEN Mul(UvlR(ld.uvl[i]), Sub(UvlXR(ld.uvl[i]), x0)) ELSE Zero])

totalHorizontalForce(ld) == SumSeq([i \in 1..Len(ld.angled) |-> Px(ld.angled[i])])

\* The horizontal reaction, pushed only when |totalHorizontalForce| > 1e-10.
horizontalReaction(ld, at) ==
    IF GtEps(Abs(totalHorizontalForce(ld)))
    THEN <<[type |-> "horizontal", at |-> at, H |-> Neg(totalHorizontalForce(ld))]>>
    ELSE <<>>

\* Variant of pinRollerReactions with the loads taken as upward-positive in
\* the force balance: pinReaction = -totalVerticalForce - rollerReaction.
pinRollerReactions_loadsUpward(ld, sup, length) ==
    LET pin_x == FieldOr(sup, "pin_x", Zero)
        roller_x == FieldOr(sup, "roller_x", length)
        rollerReaction == Div(totalMomentAbout(ld, pin_x), Sub(roller_x, pin_x))
        pinReaction == Sub(Neg(totalVerticalForce(ld)), rollerReaction)
    IN  << [type |-> "vertical", at |-> "pin", x |-> pin_x, R |-> pinReaction],
           [type |-> "vertical", at |-> "roller", x |-> roller_x, R |-> rollerReaction] >>
        \o horizontalReaction(ld, "pin")

\* Variant of pinRollerReactions in which the applied moments enter the
\* moment balance about the pin.
pinRollerReactions_withMoments(ld, sup, length) ==
    LET pin_x == FieldOr(sup, "pin_x", Zero)
        roller_x == FieldOr(sup, "roller_x", length)
        rollerReaction ==
            Div(Add(totalMomentAbout(ld, pin_x),
                    SumSeq([i \in 1..Len(ld.moment) |-> ld.moment[i].M])),
                Sub(roller_x, pin_x))
        pinReaction == Sub(totalVerticalForce(ld), rollerReaction)
    IN  << [type |-> "vertical", at |-> "pin", x |-> pin_x, R |-> pinReaction],
           [type |-> "vertical", at |-> "roller", x |-> roller_x, R |-> rollerReaction] >>
        \o horizontalReaction(ld, "pin")

pinRollerReactions(ld, sup, length) ==
    LET pin_x == FieldOr(sup, "pin_x", Zero)
        roller_x == FieldOr(sup, "roller_x", length)
        rollerReaction == Div(totalMomentAbout(ld, pin_x), Sub(roller_x, pin_x))
        pinReaction == Sub(totalVerticalForce(ld), rollerReaction)
    IN  << [type |-> "vertical", at |-> "pin", x |-> pin_x, R |-> pinReaction],
           [type |-> "vertical", at |-> "roller", x |-> roller_x, R |-> rollerReaction] >>
        \o horizontalReaction(ld, "pin")

fixedReactions(ld, sup, length) ==
    LET fixed_x == IF sup.fixed_pos = "right" THEN length ELSE Zero
        totalMomentAboutFixed ==
            Add(totalMomentAbout(ld, fixed_x),
                SumSeq([i \in 1..Len(ld.moment) |-> ld.moment[i].M]))
        fixedReaction == Neg(totalVerticalForce(ld))
        fixedMoment == Neg(totalMomentAboutFixed)
    IN  << [type |-> "vertical", at |-> "fixed", x |-> fixed_x, R |-> fixedReaction],
           [type |-> "moment", at |-> "fixed", x |-> fixed_x, M |-> fixedMoment] >>
        \o horizontalReaction(ld, "fixed")

calculateReactions(ld, sup, length) ==
    IF sup.type = "pin+roller" THEN pinRollerReactions(ld, sup, length)
    ELSE IF sup.type = "fixed" THEN fixedReactions(ld, sup, length)
    ELSE <<>>

(***************************************************************************)
(* Event generator                                                         *)
(***************************************************************************)
\* Set.prototype.add on a Set kept as the sequence of its values in insertion
\* order: a value already present is not added again.
SetAdd(events, x) ==
    IF \E i \in 1..Len(events) : events[i] = x THEN events ELSE Append(events, x)

\* forEach(v => events.add(v)) over the first k entries of xs.
RECURSIVE SetAddAll(_, _, _)
SetAddAll(events, xs, k) ==
    IF k = 0 THEN events ELSE SetAdd(SetAddAll(events, xs, k - 1), xs[k])

\* The place of x in a sorted array: behind every entry e with e - x <= 0.
InsertSorted(sorted, x) ==
    LET before == {i \in 1..Len(sorted) : Le(Sub(sorted[i], x), Zero)}
    IN  [i \in 1..(Len(sorted) + 1) |->
           IF i <= Cardinality(before) THEN sorted[i]
           ELSE IF i = Cardinality(before) + 1 THEN x
           ELSE sorted[i - 1]]

\* Array.from(events).sort((a, b) => a - b) on the first k entries.
RECURSIVE SortNumbers(_, _)
SortNumbers(xs, k) ==
    IF k = 0 THEN <<>> ELSE InsertSorted(SortNumbers(xs, k - 1), xs[k])

\* The span ends a, b of the entries of a UDL or UVL array, in array order.
SpanEnds(dl) == [i \in 1..(2 * Len(dl)) |->
                    IF i % 2 = 1 THEN dl[(i + 1) \div 2].a ELSE dl[i \div 2].b]

\* Variant of generateEvents that returns the events in insertion order.
generateEvents_unsorted(ld, sup, length) ==
    LET xs == <<Zero, length>>
              \o (IF sup.type = "pin+roller"
                  THEN <<FieldOr(sup, "pin_x", Zero), FieldOr(sup, "roller_x", length)>>
                  ELSE IF sup.type = "fixed"
                  THEN <<IF sup.fixed_pos = "right" THEN length ELSE Zero>>
                  ELSE <<>>)
              \o [i \in 1..Len(ld.point) |-> ld.point[i].x]
              \o [i \in 1..Len(ld.angled) |-> ld.angled[i].x]
              \o SpanEnds(ld.udl)
              \o SpanEnds(ld.uvl)
              \o [i \in 1..Len(ld.moment) |-> ld.moment[i].x]
    IN  Array(SetAddAll(<<>>, xs, Len(xs)))

\* Variant of generateEvents that leaves out the positions of the moment loads.
generateEvents_noMoments(ld, sup, length) ==
    LET xs == <<Zero, length>>
              \o (IF sup.type = "pin+roller"
                  THEN <<FieldOr(sup, "pin_x", Zero), FieldOr(sup, "roller_x", length)>>
                  ELSE IF sup.type = "fixed"
                  THEN <<IF sup.fixed_pos = "right" THEN length ELSE Zero>>
                  ELSE <<>>)
              \o [i \in 1..Len(ld.point) |-> ld.point[i].x]
              \o [i \in 1..Len(ld.angled) |-> ld.angled[i].x]
              \o SpanEnds(ld.udl)
              \o SpanEnds(ld.uvl)
        Sorted(events) == Array(SortNumbers(events, Len(events)))
    IN  Sorted(SetAddAll(<<>>, xs, Len(xs)))

generateEvents(ld, sup, length) ==
    LET xs == <<Zero, length>>
              \o (IF sup.type = "pin+roller"
                  THEN <<FieldOr(sup, "pin_x", Zero), FieldOr(sup, "roller_x", length)>>
                  ELSE IF sup.type = "fixed"
                  THEN <<IF sup.fixed_pos = "right" THEN length ELSE Zero>>
                  ELSE <<>>)
              \o [i \in 1..Len(ld.point) |-> ld.point[i].x]
              \o [i \in 1..Len(ld.angled) |-> ld.angled[i].x]
              \o SpanEnds(ld.udl)
              \o SpanEnds(ld.uvl)
              \o [i \in 1..Len(ld.moment) |-> ld.moment[i].x]
        Sorted(events) == Array(SortNumbers(events, Len(events)))
    IN  Sorted(SetAddAll(<<>>, xs, Len(xs)))

(***************************************************************************)
(* Shear segment builder                                                   *)
(***************************************************************************)
\* The indices of the entries of a load array that satisfy a condition given
\* as a function on the indices, and the last of them (the one a forEach
\* that overwrites its variables leaves behind).
LastIndex(I) == CHOOSE i \in I : \A j \in I : j <= i

\* load.a < b && load.b > a
Overlaps(load, a, b) == Lt(load.a, b) /\ Gt(load.b, a)

\* Intensity of a UVL at the position x.
UvlAt(load, x) ==
    Add(load.w1, Div(Mul(Sub(load.w2, load.w1), Sub(x, load.a)), Sub(load.b, load.a)))

\* V_a of the segment starting at a (lines 317-364).
shearAt(ld, reactions, a) ==
    LET fromReactions ==
            [i \in 1..Len(reactions) |->
               IF reactions[i].type = "vertical" /\ Has(reactions[i], "x")
                  /\ Le(reactions[i].x, a)
               THEN FieldOr(reactions[i], "R", Zero) ELSE Zero]
        fromPoint ==
            [i \in 1..Len(ld.point) |->
               IF Le(ld.point[i].x, a) THEN ld.point[i].P ELSE Zero]
        fromAngled ==
            [i \in 1..Len(ld.angled) |->
               IF Le(ld.angled[i].x, a) THEN Py(ld.angled[i]) ELSE Zero]
        fromUdl ==
            [i \in 1..Len(ld.udl) |->
               IF Le(ld.udl[i].b, a) THEN Mul(ld.udl[i].w, Sub(ld.udl[i].b, ld.udl[i].a))
               ELSE IF Lt(ld.udl[i].a, a) THEN Mul(ld.udl[i].w, Sub(a, ld.udl[i].a))
               ELSE Zero]
        fromUvl ==
            [i \in 1..Len(ld.uvl) |->
               IF Le(ld.uvl[i].b, a)
               THEN Div(Mul(Add(ld.uvl[i].w1, ld.uvl[i].w2),
                            Sub(ld.uvl[i].b, ld.uvl[i].a)), Num(2))
               ELSE IF Lt(ld.uvl[i].a, a)
               THEN Div(Mul(Add(ld.uvl[i].w1, UvlAt(ld.uvl[i], a)),
                            Sub(a, ld.uvl[i].a)), Num(2))
               ELSE Zero]
    IN  Sub(SumSeq(fromReactions),
            SumSeq(fromPoint \o fromAngled \o fromUdl \o fromUvl))

\* The shear segment of the interval [a, b] (lines 313-436).  The values the
\* code computes once and then reuses (V_a, the rates, the coefficients) are
\* bound as parameters of the local operators, innermost first.
shearSegment(ld, reactions, a, b) ==
    LET udls == {i \in 1..Len(ld.udl) : Overlaps(ld.udl[i], a, b)}
        uvls == {i \in 1..Len(ld.uvl) : Overlaps(ld.uvl[i], a, b)}
        hasUDL == udls # {}
        hasUVL == uvls # {}
        segmentType == IF hasUVL THEN "quadratic" ELSE IF hasUDL THEN "linear" ELSE "const"
        \* w1 + (w2 - w1) * x_rel with x_rel = (x - load.a) / uvlLength
        UvlW(uvl, x) ==
            Add(uvl.w1, Mul(Sub(uvl.w2, uvl.w1), Div(Sub(x, uvl.a), Sub(uvl.b, uvl.a))))
        V_b(V_a, udlRate, coeffs, dx) ==
            IF hasUVL
            THEN Add(Add(coeffs[1], Mul(coeffs[2], dx)), Mul(Mul(coeffs[3], dx), dx))
            ELSE IF hasUDL THEN Add(V_a, Mul(udlRate, dx))
            ELSE V_a
        Segment(V_a, udlRate, coeffs) ==
            [a |-> a, b |-> b, type |-> segmentType, coeffs |-> coeffs,
             V_a |-> V_a, V_b |-> V_b(V_a, udlRate, coeffs, Sub(b, a))]
        Coeffs(V_a, udlRate, uvlW1, slope) ==
            IF hasUVL THEN <<V_a, Neg(uvlW1), Div(Neg(slope), Num(2))>>
            ELSE IF hasUDL THEN <<V_a, udlRate>>
            ELSE <<V_a>>
        WithSlope(V_a, udlRate, uvlW1, slope) ==
            Segment(V_a, udlRate, Coeffs(V_a, udlRate, uvlW1, slope))
        WithRates(V_a, udlRate, uvlW1, uvlW2) ==
            WithSlope(V_a, udlRate, uvlW1, Div(Sub(uvlW2, uvlW1), Sub(b, a)))
        WithUvl(uvl) ==
            WithRates(shearAt(ld, reactions, a),
                      IF hasUDL THEN Neg(ld.udl[LastIndex(udls)].w) ELSE Zero,
                      UvlW(uvl, Max(uvl.a, a)),
                      UvlW(uvl, Min(uvl.b, b)))
    IN  WithUvl(ld.uvl[LastIndex(uvls)])

calculateShearSegments(ld, reactions, events, length) ==
    Array([i \in 1..(Len(events) - 1) |->
             shearSegment(ld, reactions, events[i], events[i + 1])])

(***************************************************************************)
(* Moment segment builder                                                  *)
(***************************************************************************)
\* Resultant and line of action of the part of a UVL between load.a and x.
UvlActiveR(load, x) ==
    Div(Mul(Add(load.w1, UvlAt(load, x)), Sub(x, load.a)), Num(2))

UvlActiveXR(load, x) ==
    Add(load.a,
        Div(Mul(Sub(x, load.a), Add(load.w1, Mul(Num(2), UvlAt(load, x)))),
            Mul(Num(3), Add(load.w1, UvlAt(load, x)))))

\* M_a of the segment starting at a (lines 457-520).
momentAt(ld, reactions, a) ==
    LET fromReactions ==
            [i \in 1..Len(reactions) |->
               Add(IF reactions[i].type = "vertical" /\ Has(reactions[i], "x")
                      /\ Lt(reactions[i].x, a)
                   THEN Mul(FieldOr(reactions[i], "R", Zero), Sub(a, reactions[i].x))
                   ELSE Zero,
                   IF reactions[i].type = "moment" /\ Has(reactions[i], "x")
                      /\ Le(reactions[i].x, a)
                   THEN FieldOr(reactions[i], "M", Zero)
                   ELSE Zero)]
        fromPoint ==
            [i \in 1..Len(ld.point) |->
               IF Lt(ld.point[i].x, a)
               THEN Mul(ld.point[i].P, Sub(a, ld.point[i].x)) ELSE Zero]
        fromAngled ==
            [i \in 1..Len(ld.angled) |->
               IF Lt(ld.angled[i].x, a)
               THEN Mul(Py(ld.angled[i]), Sub(a, ld.angled[i].x)) ELSE Zero]
        fromUdl ==
            [i \in 1..Len(ld.udl) |->
               IF Le(ld.udl[i].b, a)
               THEN Mul(UdlR(ld.udl[i]), Sub(a, UdlXR(ld.udl[i])))
               ELSE IF Lt(ld.udl[i].a, a) /\ Gt(ld.udl[i].b, a)
               THEN Div(Mul(Mul(ld.udl[i].w, Sub(a, ld.udl[i].a)), Sub(a, ld.udl[i].a)),
                        Num(2))
               ELSE Zero]
        fromUvl ==
            [i \in 1..Len(ld.uvl) |->
               IF Le(ld.uvl[i].b, a)
               THEN Mul(UvlR(ld.uvl[i]), Sub(a, UvlXR(ld.uvl[i])))
               ELSE IF Lt(ld.uvl[i].a, a) /\ Gt(ld.uvl[i].b, a)
               THEN Mul(UvlActiveR(ld.uvl[i], a), Sub(a, UvlActiveXR(ld.uvl[i], a)))
               ELSE Zero]
        fromMoment ==
            [i \in 1..Len(ld.moment) |->
               IF Le(ld.moment[i].x, a) THEN ld.moment[i].M ELSE Zero]
    IN  Add(Sub(SumSeq(fromReactions),
                SumSeq(fromPoint \o fromAngled \o fromUdl \o fromUvl)),
            SumSeq(fromMoment))

\* coeffs?.[k] || 0 with k counted from 0.
CoeffOr0(seg, k) ==
    IF Has(seg, "coeffs") /\ k + 1 <= Len(seg.coeffs)
    THEN OrElse(seg.coeffs[k + 1], Zero) ELSE Zero

\* Variant of momentSegment that integrates the linear term of the shear
\* without halving it.
momentSegment_noHalf(V_segment, ld, reactions, a, b) ==
    LET segmentType == IF V_segment.type = "const" THEN "linear"
                       ELSE IF V_segment.type = "linear" THEN "quadratic"
                       ELSE IF V_segment.type = "quadratic" THEN "cubic"
                       ELSE "linear"
        Coeffs(M_a) ==
            IF V_segment.type = "const" THEN <<M_a, FieldOr(V_segment, "V_a", Zero)>>
            ELSE IF V_segment.type = "linear"
            THEN <<M_a, FieldOr(V_segment, "V_a", Zero), CoeffOr0(V_segment, 1)>>
            ELSE IF V_segment.type = "quadratic"
            THEN <<M_a, CoeffOr0(V_segment, 0), CoeffOr0(V_segment, 1),
                   Div(CoeffOr0(V_segment, 2), Num(3))>>
            ELSE <<>>
        M_b(coeffs, dx) ==
            IF segmentType = "linear"
            THEN Add(coeffs[1], Mul(coeffs[2], dx))
            ELSE IF segmentType = "quadratic"
            THEN Add(Add(coeffs[1], Mul(coeffs[2], dx)), Mul(Mul(coeffs[3], dx), dx))
            ELSE Add(Add(Add(coeffs[1], Mul(coeffs[2], dx)), Mul(Mul(coeffs[3], dx), dx)),
                     Mul(Mul(Mul(coeffs[4], dx), dx), dx))
        Segment(M_a, coeffs) ==
            [a |-> a, b |-> b, type |-> segmentType, coeffs |-> coeffs,
             M_a |-> M_a, M_b |-> M_b(coeffs, Sub(b, a))]
        From(M_a) == Segment(M_a, Coeffs(M_a))
    IN  From(momentAt(ld, reactions, a))

\* The moment segment of the interval [a, b] over its shear segment (lines 452-570).
momentSegment(V_segment, ld, reactions, a, b) ==
    LET segmentType == IF V_segment.type = "const" THEN "linear"
                       ELSE IF V_segment.type = "linear" THEN "quadratic"
                       ELSE IF V_segment.type = "quadratic" THEN "cubic"
                       ELSE "linear"
        Coeffs(M_a) ==
            IF V_segment.type = "const" THEN <<M_a, FieldOr(V_segment, "V_a", Zero)>>
            ELSE IF V_segment.type = "linear"
            THEN <<M_a, FieldOr(V_segment, "V_a", Zero), Div(CoeffOr0(V_segment, 1), Num(2))>>
            ELSE IF V_segment.type = "quadratic"
            THEN <<M_a, CoeffOr0(V_segment, 0), Div(CoeffOr0(V_segment, 1), Num(2)),
                   Div(CoeffOr0(V_segment, 2), Num(3))>>
            ELSE <<>>
        M_b(coeffs, dx) ==
            IF segmentType = "linear"
            THEN Add(coeffs[1], Mul(coeffs[2], dx))
            ELSE IF segmentType = "quadratic"
            THEN Add(Add(coeffs[1], Mul(coeffs[2], dx)), Mul(Mul(coeffs[3], dx), dx))
            ELSE Add(Add(Add(coeffs[1], Mul(coeffs[2], dx)), Mul(Mul(coeffs[3], dx), dx)),
                     Mul(Mul(Mul(coeffs[4], dx), dx), dx))
        Segment(M_a, coeffs) ==
            [a |-> a, b |-> b, type |-> segmentType, coeffs |-> coeffs,
             M_a |-> M_a, M_b |-> M_b(coeffs, Sub(b, a))]
        From(M_a) == Segment(M_a, Coeffs(M_a))
    IN  From(momentAt(ld, reactions, a))

calculateMomentSegments(V_segments, ld, reactions, events, length) ==
    Array([i \in 1..(Len(events) - 1) |->
             momentSegment(V_segments[i], ld, reactions, events[i], events[i + 1])])

(***************************************************************************)
(* Extrema finder                                                          *)
(***************************************************************************)
calculateMomentAtPoint(x, ld, reactions) ==
    LET fromReactions ==
            [i \in 1..Len(reactions) |->
               IF reactions[i].type = "vertical" /\ Has(reactions[i], "x")
                  /\ Lt(reactions[i].x, x)
               THEN Mul(FieldOr(reactions[i], "R", Zero), Sub(x, reactions[i].x))
               ELSE Zero]
        fromPoint ==
            [i \in 1..Len(ld.point) |->
               IF Lt(ld.point[i].x, x)
               THEN Mul(ld.point[i].P, Sub(x, ld.point[i].x)) ELSE Zero]
        fromAngled ==
            [i \in 1..Len(ld.angled) |->
               IF Lt(ld.angled[i].x, x)
               THEN Mul(Py(ld.angled[i]), Sub(x, ld.angled[i].x)) ELSE Zero]
        fromUdl ==
            [i \in 1..Len(ld.udl) |->
               IF Lt(ld.udl[i].b, x)
               THEN Mul(UdlR(ld.udl[i]), Sub(x, UdlXR(ld.udl[i])))
               ELSE IF Lt(ld.udl[i].a, x)
               THEN Mul(Mul(ld.udl[i].w, Sub(x, ld.udl[i].a)),
                        Sub(x, Add(ld.udl[i].a, Div(Sub(x, ld.udl[i].a), Num(2)))))
               ELSE Zero]
        fromUvl ==
            [i \in 1..Len(ld.uvl) |->
               IF Lt(ld.uvl[i].b, x)
               THEN Mul(UvlR(ld.uvl[i]),
                        Sub(x, Add(ld.uvl[i].a,
                                   Mul(Div(Add(ld.uvl[i].w1, Mul(Num(2), ld.uvl[i].w2)),
                                           Mul(Num(3), Add(ld.uvl[i].w1, ld.uvl[i].w2))),
                                       Sub(ld.uvl[i].b, ld.uvl[i].a)))))
               ELSE IF Lt(ld.uvl[i].a, x)
               THEN LET w1_at_x == UvlAt(ld.uvl[i], x)
                        L_active == Sub(x, ld.uvl[i].a)
                        xR_active ==
                            Add(ld.uvl[i].a,
                                Mul(Div(Add(ld.uvl[i].w1, Mul(Num(2), w1_at_x)),
                                        Mul(Num(3), Add(ld.uvl[i].w1, w1_at_x))),
                                    L_active))
                    IN  Mul(UvlActiveR(ld.uvl[i], x), Sub(x, xR_active))
               ELSE Zero]
        fromMoment ==
            [i \in 1..Len(ld.moment) |->
               IF Lt(ld.moment[i].x, x) THEN ld.moment[i].M ELSE Zero]
    IN  Add(Sub(SumSeq(fromReactions),
                SumSeq(fromPoint \o fromAngled \o fromUdl \o fromUvl)),
            SumSeq(fromMoment))

\* A running maximum and minimum with their positions.
Running(max, min, maxPos, minPos) ==
    [max |-> max, min |-> min, maxPos |-> maxPos, minPos |-> minPos]

\* if (value > max) {...}  if (value < min) {...}
Compare(acc, value, pos) ==
    Running(IF Gt(value, acc.max) THEN value ELSE acc.max,
            IF Lt(value, acc.min) THEN value ELSE acc.min,
            IF Gt(value, acc.max) THEN pos ELSE acc.maxPos,
            IF Lt(value, acc.min) THEN pos ELSE acc.minPos)

\* The scan of the segment end values (lines 650-686), on the first k segments.
RECURSIVE scanShearEnds(_, _)
scanShearEnds(V_segments, k) ==
    IF k = 0 THEN Running(NegInf, PosInf, Zero, Zero)
    ELSE Compare(Compare(scanShearEnds(V_segments, k - 1),
                         V_segments[k].V_a, V_segments[k].a),
                 V_segments[k].V_b, V_segments[k].b)

\* Variant of scanMomentEnds that records segment.a as the position of M_b.
RECURSIVE scanMomentEnds_startPosition(_, _)
scanMomentEnds_startPosition(M_segments, k) ==
    IF k = 0 THEN Running(NegInf, PosInf, Zero, Zero)
    ELSE Compare(Compare(scanMomentEnds_startPosition(M_segments, k - 1),
                         M_segments[k].M_a, M_segments[k].a),
                 M_segments[k].M_b, M_segments[k].a)

RECURSIVE scanMomentEnds(_, _)
scanMomentEnds(M_segments, k) ==
    IF k = 0 THEN Running(NegInf, PosInf, Zero, Zero)
    ELSE Compare(Compare(scanMomentEnds(M_segments, k - 1),
                         M_segments[k].M_a, M_segments[k].a),
                 M_segments[k].M_b, M_segments[k].b)

\* Variant of zeroShearX with the sign of the correction flipped.
zeroShearX_plus(segment) ==
    Add(segment.a,
        Div(segment.V_a,
            Div(Sub(segment.V_b, segment.V_a), Sub(segment.b, segment.a))))

\* The interior point examined inside a shear segment (lines 689-724).
zeroShearX(segment) ==
    Sub(segment.a,
        Div(segment.V_a,
            Div(Sub(segment.V_b, segment.V_a), Sub(segment.b, segment.a))))

midPoint(segment) == Div(Add(segment.a, segment.b), Num(2))

RECURSIVE scanInterior(_, _, _, _, _)
scanInterior(acc0, V_segments, ld, reactions, k) ==
    IF k = 0 THEN acc0
    ELSE LET acc == scanInterior(acc0, V_segments, ld, reactions, k - 1)
             segment == V_segments[k]
         IN  IF segment.type = "linear" /\ Lt(Mul(segment.V_a, segment.V_b), Zero)
             THEN Compare(acc, calculateMomentAtPoint(zeroShearX(segment), ld, reactions),
                          zeroShearX(segment))
             ELSE IF segment.type = "quadratic"
             THEN Compare(acc, calculateMomentAtPoint(midPoint(segment), ld, reactions),
                          midPoint(segment))
             ELSE acc

Extrema(Vmax, Vmin, Mmax, Mmin, Vmax_pos, Vmin_pos, Mmax_pos, Mmin_pos) ==
    [Vmax |-> Vmax, Vmin |-> Vmin, Mmax |-> Mmax, Mmin |-> Mmin,
     positions |-> [Vmax_pos |-> Vmax_pos, Vmin_pos |-> Vmin_pos,
                    Mmax_pos |-> Mmax_pos, Mmin_pos |-> Mmin_pos]]

findExtrema(V_segments, M_segments, ld, reactions, length) ==
    LET Found(v, m) ==
            Extrema(v.max, v.min, m.max, m.min, v.maxPos, v.minPos, m.maxPos, m.minPos)
    IN  Found(scanShearEnds(V_segments, Len(V_segments)),
              scanInterior(scanMomentEnds(M_segments, Len(M_segments)),
                           V_segments, ld, reactions, Len(V_segments)))

(***************************************************************************)
(* Conversion to display units and the entry point                         *)
(***************************************************************************)
\* convertForce(value, base, display) * convertLength(1, base, display)
convertMoment(value, units) ==
    Mul(convertForce(value, BASE_UNITS.force, units.force),
        convertLength(Num(1), BASE_UNITS.length, units.length))

convertReactionsToDisplayUnits(reactions, units) ==
    Array([i \in 1..Len(reactions) |->
        [f \in DOMAIN reactions[i] |->
           CASE f = "x" -> convertLength(reactions[i].x, BASE_UNITS.length, units.length)
             [] f = "R" -> convertForce(reactions[i].R, BASE_UNITS.force, units.force)
             [] f = "M" -> convertMoment(reactions[i].M, units)
             [] f = "H" -> convertForce(reactions[i].H, BASE_UNITS.force, units.force)
             [] OTHER -> reactions[i][f]]])

convertSegmentsToDisplayUnits(segments, units) ==
    Array([i \in 1..Len(segments) |->
        [f \in DOMAIN segments[i] |->
           CASE f \in {"a", "b"} ->
                  convertLength(segments[i][f], BASE_UNITS.length, units.length)
             [] f \in {"V_a", "V_b"} ->
                  convertForce(segments[i][f], BASE_UNITS.force, units.force)
             [] f \in {"M_a", "M_b"} -> convertMoment(segments[i][f], units)
             [] OTHER -> segments[i][f]]])

convertExtremaToDisplayUnits(extrema, units) ==
    Extrema(convertForce(extrema.Vmax, BASE_UNITS.force, units.force),
            convertForce(extrema.Vmin, BASE_UNITS.force, units.force),
            convertMoment(extrema.Mmax, units),
            convertMoment(extrema.Mmin, units),
            convertLength(extrema.positions.Vmax_pos, BASE_UNITS.length, units.length),
            convertLength(extrema.positions.Vmin_pos, BASE_UNITS.length, units.length),
            convertLength(extrema.positions.Mmax_pos, BASE_UNITS.length, units.length),
            convertLength(extrema.positions.Mmin_pos, BASE_UNITS.length, units.length))

\* Variant of createErrorResult that leaves the extrema at the initial values
\* of findExtrema instead of zeroing them.
createErrorResult_unzeroed(error) ==
    [reactions |-> <<>>, events |-> <<>>, V_segments |-> <<>>, M_segments |-> <<>>,
     extrema |-> Extrema(NegInf, PosInf, NegInf, PosInf, Zero, Zero, Zero, Zero),
     isValid |-> FALSE, error |-> error]

createErrorResult(error) ==
    [reactions |-> <<>>, events |-> <<>>, V_segments |-> <<>>, M_segments |-> <<>>,
     extrema |-> Extrema(Zero, Zero, Zero, Zero, Zero, Zero, Zero, Zero),
     isValid |-> FALSE, error |-> error]

\* The steps of the analysis, last first: each local operator takes the values
\* computed so far and passes them on with the value of its own step.
calculateBeamAnalysis(bd, sup, ld) ==
    LET Valid(reactions, events, V_segments, M_segments, extrema) ==
            [reactions |-> convertReactionsToDisplayUnits(reactions, bd.units),
             events |-> Array([i \in 1..Len(events) |->
                           convertLength(events[i], BASE_UNITS.length, bd.units.length)]),
             V_segments |-> convertSegmentsToDisplayUnits(V_segments, bd.units),
             M_segments |-> convertSegmentsToDisplayUnits(M_segments, bd.units),
             extrema |-> convertExtremaToDisplayUnits(extrema, bd.units),
             isValid |-> TRUE]
        WithMoment(baseLength, baseLoads, reactions, events, V_segments, M_segments) ==
            Valid(reactions, events, V_segments, M_segments,
                  findExtrema(V_segments, M_segments, baseLoads, reactions, baseLength))
        WithShear(baseLength, baseLoads, reactions, events, V_segments) ==
            WithMoment(baseLength, baseLoads, reactions, events, V_segments,
                       calculateMomentSegments(V_segments, baseLoads, reactions,
                                               events, baseLength))
        WithReactions(baseLength, baseLoads, reactions, events) ==
            WithShear(baseLength, baseLoads, reactions, events,
                      calculateShearSegments(baseLoads, reactions, events, baseLength))
        InBaseUnits(baseLength, baseLoads, baseSupports) ==
            IF ~validateSupports(baseSupports, baseLength)
            THEN createErrorResult("Invalid support configuration")
            ELSE WithReactions(baseLength, baseLoads,
                               calculateReactions(baseLoads, baseSupports, baseLength),
                               generateEvents(baseLoads, baseSupports, baseLength))
    IN  IF Le(bd.length, Zero)
        THEN createErrorResult("Beam length must be greater than 0")
        ELSE InBaseUnits(convertLength(bd.length, bd.units.length, BASE_UNITS.length),
                         convertLoadsToBaseUnits(ld, bd.units),
                         convertSupportsToBaseUnits(sup, bd.units.length))

(***************************************************************************)
(* Diagram samplers                                                        *)
(***************************************************************************)
\* Math.round(v * 1000) / 1000; Math.round rounds halves up.  The three
\* decimals are taken one at a time from the remainder of n / d.
Round3(v) ==
    LET Rounded(whole, d1, d2, d3, r3) ==
            Rat(1000 * whole + 100 * d1 + 10 * d2 + d3 + (IF 2 * r3 >= v.d THEN 1 ELSE 0),
                1000)
        Third(whole, d1, d2, r2) ==
            Rounded(whole, d1, d2, (10 * r2) \div v.d, (10 * r2) % v.d)
        Second(whole, d1, r1) == Third(whole, d1, (10 * r1) \div v.d, (10 * r1) % v.d)
        First(whole, r0) == Second(whole, (10 * r0) \div v.d, (10 * r0) % v.d)
    IN  IF ~IsFinite(v) THEN v ELSE First(v.n \div v.d, v.n % v.d)

\* let numPoints = 2; if linear 10; if quadratic 20
shearNumPoints(segment) ==
    IF segment.type = "quadratic" THEN 20
    ELSE IF segment.type = "linear" THEN 10
    ELSE 2

\* let numPoints = 10; if quadratic 20; if cubic 30
momentNumPoints(segment) ==
    IF segment.type = "cubic" THEN 30
    ELSE IF segment.type = "quadratic" THEN 20
    ELSE 10

\* The value computed for the i-th point (i = 0..numPoints) of a segment from
\* its coefficients, or by interpolation between the end values va and vb.
\* kinds lists the segment types of the switch by the number of terms used.
sampleValue(segment, kinds, va, vb, t, dx) ==
    IF Has(segment, "coeffs")
    THEN IF segment.type = kinds[1] THEN segment.coeffs[1]
         ELSE IF segment.type = kinds[2]
         THEN Add(segment.coeffs[1], Mul(CoeffOr0(segment, 1), dx))
         ELSE IF segment.type = kinds[3]
         THEN Add(Add(segment.coeffs[1], Mul(CoeffOr0(segment, 1), dx)),
                  Mul(Mul(CoeffOr0(segment, 2), dx), dx))
         ELSE IF segment.type = kinds[4]
         THEN Add(Add(Add(segment.coeffs[1], Mul(CoeffOr0(segment, 1), dx)),
                      Mul(Mul(CoeffOr0(segment, 2), dx), dx)),
                  Mul(Mul(Mul(CoeffOr0(segment, 3), dx), dx), dx))
         ELSE Zero
    ELSE Add(va, Mul(Sub(vb, va), t))

\* The points pushed for one segment: i = 0, ..., numPoints.
samplePoints(segment, numPoints, kinds, va, vb) ==
    LET Point(x, value) == [x |-> Round3(x), value |-> Round3(value)]
        At(t, x) == Point(x, sampleValue(segment, kinds, va, vb, t, Sub(x, segment.a)))
        AtT(t) == At(t, Add(segment.a, Mul(Sub(segment.b, segment.a), t)))
    IN  [k \in 1..(numPoints + 1) |-> AtT(Rat(k - 1, numPoints))]

\* The dataPoints of generateShearForceData before the duplicates are removed,
\* over the first k segments.
RECURSIVE shearDataPoints(_, _)
shearDataPoints(V_segments, k) ==
    IF k = 0 THEN <<>>
    ELSE shearDataPoints(V_segments, k - 1)
         \o samplePoints(V_segments[k], shearNumPoints(V_segments[k]),
                         <<"const", "linear", "quadratic", "none">>,
                         FieldOr(V_segments[k], "V_a", NaN), FieldOr(V_segments[k], "V_b", NaN))

RECURSIVE momentDataPoints(_, _)
momentDataPoints(M_segments, k) ==
    IF k = 0 THEN <<>>
    ELSE momentDataPoints(M_segments, k - 1)
         \o samplePoints(M_segments[k], momentNumPoints(M_segments[k]),
                         <<"none", "linear", "quadratic", "cubic">>,
                         FieldOr(M_segments[k], "M_a", NaN), FieldOr(M_segments[k], "M_b", NaN))

\* Variant of uniquePoints that keeps every point.
uniquePoints_all(dataPoints, k) == SubSeq(dataPoints, 1, k)

\* dataPoints.filter((point, index, arr) =>
\*     index === 0 || Math.abs(point.x - arr[index - 1].x) > 0.001)
RECURSIVE uniquePoints(_, _)
uniquePoints(dataPoints, k) ==
    IF k = 0 THEN <<>>
    ELSE uniquePoints(dataPoints, k - 1)
         \o (IF k = 1 \/ Gt(Abs(Sub(dataPoints[k].x, dataPoints[k - 1].x)), Rat(1, 1000))
             THEN <<dataPoints[k]>> ELSE <<>>)

generateShearForceData(analysisResult) ==
    LET Unique(dataPoints) == uniquePoints(dataPoints, Len(dataPoints))
    IN  Unique(shearDataPoints(analysisResult.V_segments, Len(analysisResult.V_segments)))

generateBendingMomentData(analysisResult) ==
    LET Unique(dataPoints) == uniquePoints(dataPoints, Len(dataPoints))
    IN  Unique(momentDataPoints(analysisResult.M_segments, Len(analysisResult.M_segments)))

(***************************************************************************)
(* Inputs                                                                  *)
(***************************************************************************)
\* Longest beam, in display units; load and support positions are 0..MaxLen.
MaxLen == 3

\* Largest load magnitude and intensity, in display units.
MaxMag == 2

\* Largest number of entries of one load array.
MaxLoads == 2

\* All sequences over S of length 0..n.
RECURSIVE SeqsUpTo(_, _)
SeqsUpTo(S, n) ==
    IF n = 0 THEN {<<>>}
    ELSE LET shorter == SeqsUpTo(S, n - 1)
         IN  shorter \cup {Append(q, e) : q \in {r \in shorter : Len(r) = n - 1}, e \in S}

NoLoads == [point |-> <<>>, angled |-> <<>>, udl |-> <<>>, uvl |-> <<>>, moment |-> <<>>]

Positions == {Num(i) : i \in 0..MaxLen}

PinRoller(p, r) == [type |-> "pin+roller", pin_x |-> p, roller_x |-> r]

Fixed(side) == [type |-> "fixed", fixed_pos |-> side]

AllSupports ==
    {PinRoller(p, r) : p \in Positions, r \in Positions}
    \cup {Fixed("left"), Fixed("right")}

\* The magnitudes and intensities of the loads drawn.
Magnitudes == {Num(1), Num(MaxMag)}

PointLoads == {[label |-> "P", x |-> x, P |-> m] : x \in Positions, m \in Magnitudes}

\* Point load arrays listed from left to right (and by magnitude at one x).
PointArrays ==
    { pl \in SeqsUpTo(PointLoads, MaxLoads) :
        \A i \in 1..(Len(pl) - 1) :
           \/ Lt(pl[i].x, pl[i + 1].x)
           \/ pl[i].x = pl[i + 1].x /\ Le(pl[i].P, pl[i + 1].P) }

\* The supports of the beams that carry distributed loads.
DistSupports ==
    {PinRoller(Num(0), Num(MaxLen)), PinRoller(Num(1), Num(MaxLen)),
     Fixed("left"), Fixed("right")}

Spans == {<<a, b>> \in Positions \X Positions : Lt(a, b)}

UdlLoads == {[label |-> "W", a |-> ab[1], b |-> ab[2], w |-> w] : ab \in Spans, w \in Magnitudes}

UvlLoads ==
    {[label |-> "V", a |-> ab[1], b |-> ab[2], w1 |-> w1, w2 |-> w2] :
        ab \in Spans, w1 \in Magnitudes \cup {Num(-1), Zero},
        w2 \in Magnitudes \cup {Num(-1), Zero}}

AngledLoads ==
    {[label |-> "A", x |-> x, P |-> Num(1), theta_deg |-> Num(t)] :
        x \in Positions, t \in {90, 270}}

MomentLoads == {[label |-> "M", x |-> x, M |-> Num(MaxMag)] : x \in Positions}

\* At most one point load, of the largest magnitude.
OnePoint == SeqsUpTo({q \in PointLoads : q.P = Num(MaxMag)}, 1)

MetreKilonewton == [length |-> "m", force |-> "kN"]

(***************************************************************************)
(* The state machine: page.tsx holds the input triple and recomputes the   *)
(* analysis from it (useMemo, src/src/app/page.tsx:53-55).                 *)
(***************************************************************************)
NoResult == [isValid |-> FALSE, pending |-> TRUE]

\* The state in which the page holds the given input and has not analysed it.
Start(length, units, sup, ld) ==
    /\ beamData = [length |-> length, units |-> units]
    /\ supports = sup
    /\ loads = ld
    /\ result = NoResult
    /\ pc = "input"

\* Beams of length MaxLen in m and kN with any supports and downward point
\* loads only.
InitPoint ==
    \E sup \in AllSupports, pl \in PointArrays :
       Start(Num(MaxLen), MetreKilonewton, sup, [NoLoads EXCEPT !.point = pl])

\* The same with at most one point load, in every unit pair.
InitUnit ==
    \E u \in UNIT_PAIRS, sup \in AllSupports, pl \in SeqsUpTo(PointLoads, 1) :
       Start(Num(MaxLen), u, sup, [NoLoads EXCEPT !.point = pl])

\* Beams whose length is not positive.
InitBadLength ==
    \E l \in {-1, 0}, u \in UNIT_PAIRS, pl \in SeqsUpTo(PointLoads, 1),
       sup \in {PinRoller(Num(0), Num(MaxLen)), PinRoller(Num(0), Num(0)), Fixed("left")} :
       Start(Num(l), u, sup, [NoLoads EXCEPT !.point = pl])

Init == InitPoint \/ InitUnit \/ InitBadLength

\* Simply supported beams under arrays of UDLs, overlapping ones included.
InitUdl ==
    \E ul \in SeqsUpTo(UdlLoads, MaxLoads) :
       Start(Num(MaxLen), MetreKilonewton, PinRoller(Num(0), Num(MaxLen)),
             [NoLoads EXCEPT !.udl = ul])

\* One distributed load (a UDL or a UVL) and at most one point load.
InitSpan ==
    \E sup \in DistSupports, pl \in OnePoint,
       dl \in {[udl |-> <<u>>, uvl |-> <<>>] : u \in UdlLoads}
              \cup {[udl |-> <<>>, uvl |-> <<v>>] : v \in UvlLoads} :
       Start(Num(MaxLen), MetreKilonewton, sup,
             [NoLoads EXCEPT !.point = pl, !.udl = dl.udl, !.uvl = dl.uvl])

\* At most one point load, one angled load and one applied moment.
InitMixed ==
    \E sup \in DistSupports, pl \in OnePoint,
       al \in SeqsUpTo(AngledLoads, 1), ml \in SeqsUpTo(MomentLoads, 1) :
       Start(Num(MaxLen), MetreKilonewton, sup,
             [NoLoads EXCEPT !.point = pl, !.angled = al, !.moment = ml])

InitDist == InitUdl \/ InitSpan \/ InitMixed

\* Variant of Analyze in which the loads are converted to base units in place,
\* in the caller's arrays.
Analyze_inPlace ==
    /\ pc = "input"
    /\ result' = calculateBeamAnalysis(beamData, supports, loads)
    /\ pc' = "done"
    /\ loads' = convertLoadsToBaseUnits(loads, beamData.units)
    /\ UNCHANGED <<beamData, supports>>

\* const analysisResult = useMemo(() => calculateBeamAnalysis(...))
Analyze ==
    /\ pc = "input"
    /\ result' = calculateBeamAnalysis(beamData, supports, loads)
    /\ pc' = "done"
    /\ UNCHANGED <<beamData, supports, loads>>

Next == Analyze

Spec == Init /\ [][Next]_vars

\* The same machine started on the beams with distributed and mixed loads.
SpecDist == InitDist /\ [][Next]_vars

(***************************************************************************)
(* The event generator on its own: generateEvents applied to an input in   *)
(* base units, then to the same input with its load arrays reordered.      *)
(***************************************************************************)
\* Load positions on the beam, left of it and right of it.
AnyPositions == {Num(i) : i \in (0 - 1)..(MaxLen + 1)}

EventSupports ==
    DistSupports \cup {PinRoller(Num(MaxLen), Num(0)), PinRoller(Num(0), Num(0))}

\* The load arrays with two entries of one kind, or one entry of three kinds.
EventLoads ==
    {[NoLoads EXCEPT !.point = <<[label |-> "P", x |-> x1, P |-> Num(1)],
                                 [label |-> "P", x |-> x2, P |-> Num(1)]>>] :
        x1 \in AnyPositions, x2 \in AnyPositions}
    \cup {[NoLoads EXCEPT !.angled =
              <<[label |-> "A", x |-> x1, P |-> Num(1), theta_deg |-> Num(90)],
                [label |-> "A", x |-> x2, P |-> Num(1), theta_deg |-> Num(90)]>>] :
        x1 \in AnyPositions, x2 \in AnyPositions}
    \cup {[NoLoads EXCEPT !.moment = <<[label |-> "M", x |-> x1, M |-> Num(1)],
                                       [label |-> "M", x |-> x2, M |-> Num(1)]>>] :
        x1 \in AnyPositions, x2 \in AnyPositions}
    \cup {[NoLoads EXCEPT !.udl =
              <<[label |-> "W", a |-> s1[1], b |-> s1[2], w |-> Num(1)],
                [label |-> "W", a |-> s2[1], b |-> s2[2], w |-> Num(1)]>>] :
        s1 \in Spans, s2 \in Spans}
    \cup {[NoLoads EXCEPT !.uvl =
              <<[label |-> "V", a |-> s1[1], b |-> s1[2], w1 |-> Zero, w2 |-> Num(1)],
                [label |-> "V", a |-> s2[1], b |-> s2[2], w1 |-> Zero, w2 |-> Num(1)]>>] :
        s1 \in Spans, s2 \in Spans}
    \cup {[NoLoads EXCEPT !.point = <<[label |-> "P", x |-> x1, P |-> Num(1)]>>,
                          !.udl = <<[label |-> "W", a |-> s1[1], b |-> s1[2], w |-> Num(1)]>>,
                          !.moment = <<[label |-> "M", x |-> x2, M |-> Num(1)]>>] :
        x1 \in Positions, s1 \in Spans, x2 \in Positions}

InitEvents ==
    \E sup \in EventSupports, ld \in EventLoads : Start(Num(MaxLen), BASE_UNITS, sup, ld)

\* The rearrangements of an array.
Reorderings(q) == {[i \in 1..Len(q) |-> q[f[i]]] : f \in Permutations(1..Len(q))}

\* const events = generateEvents(baseLoads, baseSupports, baseLength)
Events ==
    /\ pc = "input"
    /\ result' = [events |-> generateEvents(loads, supports, beamData.length),
                  input |-> loads]
    /\ pc' = "events"
    /\ UNCHANGED <<beamData, supports, loads>>

\* The caller lists the same loads in another order (or in the same one).
Reorder ==
    /\ pc = "events"
    /\ \E point \in Reorderings(loads.point), angled \in Reorderings(loads.angled),
          udl \in Reorderings(loads.udl), uvl \in Reorderings(loads.uvl),
          moment \in Reorderings(loads.moment) :
          loads' = [point |-> point, angled |-> angled, udl |-> udl, uvl |-> uvl,
                    moment |-> moment]
    /\ pc' = "reordered"
    /\ UNCHANGED <<beamData, supports, result>>

\* The second call of generateEvents.
EventsAgain ==
    /\ pc = "reordered"
    /\ result' = [result EXCEPT !.events = generateEvents(loads, supports, beamData.length)]
                 @@ [first |-> result.events]
    /\ pc' = "again"
    /\ UNCHANGED <<beamData, supports, loads>>

NextEvents == Events \/ Reorder \/ EventsAgain

SpecEvents == InitEvents /\ [][NextEvents]_vars

(***************************************************************************)
(* Two calls of calculateBeamAnalysis on inputs the engine does not        *)
(* restrict: any unit pair, loads on and off the beam.                     *)
(***************************************************************************)
\* One point load anywhere, in every unit pair.
InitAnywhere ==
    \E u \in UNIT_PAIRS, sup \in AllSupports,
       pl \in SeqsUpTo({[label |-> "P", x |-> x, P |-> m] :
                           x \in AnyPositions, m \in Magnitudes}, 1) :
       Start(Num(MaxLen), u, sup, [NoLoads EXCEPT !.point = pl])

\* One UDL whose span may leave the beam on either side.
InitOverhang ==
    \E sup \in DistSupports, a \in AnyPositions, b \in AnyPositions :
       /\ Lt(a, b)
       /\ Start(Num(MaxLen), MetreKilonewton, sup,
                [NoLoads EXCEPT !.udl = <<[label |-> "W", a |-> a, b |-> b, w |-> Num(1)]>>])

InitCalls == InitAnywhere \/ InitOverhang

\* A second call of calculateBeamAnalysis on what the first one left behind.
AnalyzeAgain ==
    /\ pc = "done"
    /\ result' = [first |-> result,
                  second |-> calculateBeamAnalysis(beamData, supports, loads)]
    /\ pc' = "again"
    /\ UNCHANGED <<beamData, supports, loads>>

NextCalls == Analyze \/ AnalyzeAgain

SpecCalls == InitCalls /\ [][NextCalls]_vars

(***************************************************************************)
(* The diagram data sampled from an analysis.                              *)
(***************************************************************************)
\* generateShearForceData(analysisResult), generateBendingMomentData(analysisResult)
Sample ==
    /\ pc = "done"
    /\ result' = [analysis |-> result,
                  shearForce |-> generateShearForceData(result),
                  bendingMoment |-> generateBendingMomentData(result)]
    /\ pc' = "sampled"
    /\ UNCHANGED <<beamData, supports, loads>>

NextDiagrams == Analyze \/ Sample

\* The beams of InitSpan, and beams under a UDL over the whole length with a
\* point load a hundredth of the unit from the left end, whose first segment
\* is sampled at steps of 0.001 and less.
SpecDiagrams ==
    /\ \/ InitSpan
       \/ \E sup \in {PinRoller(Num(0), Num(MaxLen)), Fixed("left")},
             w \in Magnitudes, P \in Magnitudes :
             Start(Num(MaxLen), MetreKilonewton, sup,
                   [NoLoads EXCEPT
                      !.udl = <<[label |-> "W", a |-> Zero, b |-> Num(MaxLen), w |-> w]>>,
                      !.point = <<[label |-> "P", x |-> Rat(1, 100), P |-> P]>>])
    /\ [][NextDiagrams]_vars

(***************************************************************************)
(* The length conversion in binary64.  The analysis above is carried out   *)
(* in exact rationals; a JavaScript number is an IEEE 754 binary64, and a  *)
(* product or quotient of two numbers is the binary64 nearest to the exact *)
(* one, ties going to the even significand.  This section models that      *)
(* rounding for convertLength: a number is (-1)^neg * m * 2^e, its         *)
(* significand m a natural below 2^53 held as a sequence of 15-bit limbs,  *)
(* least significant first, without a leading zero limb.  Exponents stay   *)
(* far from the overflow and subnormal ranges for the lengths converted.   *)
(***************************************************************************)
LimbBits == 15

LimbBase == 32768

\* Bits of a binary64 significand.
SignificandBits == 53

\* Quotient bits taken beyond the operands' scale before rounding: two
\* operands of 53 bits give a quotient of 55 or 56 bits.
GuardBits == 55

RECURSIVE BigTrim(_)
BigTrim(a) ==
    IF Len(a) > 0 /\ a[Len(a)] = 0 THEN BigTrim(SubSeq(a, 1, Len(a) - 1)) ELSE a

LimbAt(a, i) == IF i <= Len(a) THEN a[i] ELSE 0

BigAdd(a, b) ==
    LET RECURSIVE From(_, _)
        From(i, carry) ==
            IF i > Len(a) /\ i > Len(b)
            THEN IF carry = 0 THEN <<>> ELSE <<carry>>
            ELSE <<(LimbAt(a, i) + LimbAt(b, i) + carry) % LimbBase>>
                 \o From(i + 1, (LimbAt(a, i) + LimbAt(b, i) + carry) \div LimbBase)
    IN  From(1, 0)

\* a - b for a >= b
BigSub(a, b) ==
    LET RECURSIVE From(_, _)
        From(i, borrow) ==
            IF i > Len(a) THEN <<>>
            ELSE <<(LimbBase + LimbAt(a, i) - LimbAt(b, i) - borrow) % LimbBase>>
                 \o From(i + 1, IF LimbAt(a, i) < LimbAt(b, i) + borrow THEN 1 ELSE 0)
    IN  BigTrim(From(1, 0))

BigLess(a, b) ==
    LET RECURSIVE Below(_)
        Below(i) ==
            IF i = 0 THEN FALSE
            ELSE IF a[i] # b[i] THEN a[i] < b[i] ELSE Below(i - 1)
    IN  IF Len(a) # Len(b) THEN Len(a) < Len(b) ELSE Below(Len(a))

\* a * k for one limb k
BigMulLimb(a, k) ==
    LET RECURSIVE From(_, _)
        From(i, carry) ==
            IF i > Len(a)
            THEN IF carry = 0 THEN <<>> ELSE <<carry>>
            ELSE <<(a[i] * k + carry) % LimbBase>>
                 \o From(i + 1, (a[i] * k + carry) \div LimbBase)
    IN  From(1, 0)

BigMul(a, b) ==
    LET RECURSIVE From(_)
        From(i) ==
            IF i > Len(b) THEN <<>>
            ELSE BigAdd(BigMulLimb(a, b[i]), <<0>> \o From(i + 1))
    IN  BigTrim(From(1))

\* floor(a / 2)
BigHalf(a) ==
    BigTrim([i \in 1..Len(a) |->
               (a[i] \div 2) + (LimbAt(a, i + 1) % 2) * (LimbBase \div 2)])

\* a * 2^k
RECURSIVE BigShift(_, _)
BigShift(a, k) == IF k = 0 \/ a = <<>> THEN a ELSE BigShift(BigAdd(a, a), k - 1)

BitLength(a) ==
    LET RECURSIVE Bits(_)
        Bits(n) == IF n = 0 THEN 0 ELSE 1 + Bits(n \div 2)
    IN  IF Len(a) = 0 THEN 0 ELSE LimbBits * (Len(a) - 1) + Bits(a[Len(a)])

Double(neg, m, e) == [neg |-> neg, m |-> m, e |-> e]

\* The one representation of a value: an odd significand, or zero.
RECURSIVE Canon(_)
Canon(x) ==
    IF x.m = <<>> THEN Double(x.neg, <<>>, 0)
    ELSE IF LimbAt(x.m, 1) % 2 = 1 THEN x
    ELSE Canon(Double(x.neg, BigHalf(x.m), x.e + 1))

\* The same value with a significand of 53 bits (x not zero).
Widen(x) ==
    Double(x.neg, BigShift(x.m, SignificandBits - BitLength(x.m)),
           x.e - (SignificandBits - BitLength(x.m)))

\* The binary64 nearest to m * 2^e and the bits already dropped below it:
\* guard is the bit dropped last, sticky tells whether any bit dropped before
\* it was set.
RECURSIVE roundTiesToEven(_, _, _, _, _)
roundTiesToEven(neg, m, e, guard, sticky) ==
    IF BitLength(m) > SignificandBits
    THEN roundTiesToEven(neg, BigHalf(m), e + 1, LimbAt(m, 1) % 2 = 1, guard \/ sticky)
    ELSE IF guard /\ (sticky \/ LimbAt(m, 1) % 2 = 1)
    THEN Canon(Double(neg, BigAdd(m, <<1>>), e))
    ELSE Canon(Double(neg, m, e))

\* x * y
fmul(x, y) == roundTiesToEven(x.neg # y.neg, BigMul(x.m, y.m), x.e + y.e, FALSE, FALSE)

\* floor(n * 2^k / d) and the remainder, from qr.q = floor(n / d) and
\* qr.r = n mod d
RECURSIVE DivSteps(_, _, _)
DivSteps(qr, d, k) ==
    IF k = 0 THEN qr
    ELSE IF BigLess(BigAdd(qr.r, qr.r), d)
    THEN DivSteps([q |-> BigAdd(qr.q, qr.q), r |-> BigAdd(qr.r, qr.r)], d, k - 1)
    ELSE DivSteps([q |-> BigAdd(BigAdd(qr.q, qr.q), <<1>>),
                   r |-> BigSub(BigAdd(qr.r, qr.r), d)], d, k - 1)

\* x / y for y not zero
fdiv(x, y) ==
    LET Rounded(e, qr) == roundTiesToEven(x.neg # y.neg, qr.q, e, FALSE, qr.r # <<>>)
        Quotient(n, d) ==
            Rounded(n.e - d.e - GuardBits,
                    IF BigLess(n.m, d.m)
                    THEN DivSteps([q |-> <<>>, r |-> n.m], d.m, GuardBits)
                    ELSE DivSteps([q |-> <<1>>, r |-> BigSub(n.m, d.m)], d.m, GuardBits))
    IN  IF x.m = <<>> THEN Double(x.neg # y.neg, <<>>, 0)
        ELSE Quotient(Widen(x), Widen(y))

\* The number an integer below 2^30 is.
Whole(i) ==
    Canon(Double(i < 0, BigTrim(<<AbsInt(i) % LimbBase, AbsInt(i) \div LimbBase>>), 0))

\* 'm': 1, 'mm': 0.001, 'ft': 0.3048.  A decimal literal is the binary64
\* nearest to its value, which is what the quotient of its digits by the
\* power of ten rounds to.
LENGTH_CONVERSIONS64 ==
    [u \in {"m", "mm", "ft"} |->
       CASE u = "m" -> Whole(1)
         [] u = "mm" -> fdiv(Whole(1), Whole(1000))
         [] u = "ft" -> fdiv(Whole(3048), Whole(10000))]

\* Variant of convertLength64 that multiplies by the target unit's factor.
convertLength64_times(value, fromUnit, toUnit) ==
    LET Factor(u) == IF u \in DOMAIN LENGTH_CONVERSIONS64
                        /\ LENGTH_CONVERSIONS64[u].m # <<>>
                     THEN LENGTH_CONVERSIONS64[u] ELSE Whole(1)
    IN  fmul(fmul(value, Factor(fromUnit)), Factor(toUnit))

\* return (value * fromFactor) / toFactor;
convertLength64(value, fromUnit, toUnit) ==
    LET Factor(u) == IF u \in DOMAIN LENGTH_CONVERSIONS64
                        /\ LENGTH_CONVERSIONS64[u].m # <<>>
                     THEN LENGTH_CONVERSIONS64[u] ELSE Whole(1)
    IN  fdiv(fmul(value, Factor(fromUnit)), Factor(toUnit))

\* Beam lengths up to MaxLen in quarters of the unit.
QuarterLengths ==
    {Canon(Double(FALSE, BigTrim(<<k>>), 0 - 2)) : k \in 1..(4 * MaxLen)}

InitLengths ==
    \E l \in QuarterLengths, u \in UNIT_PAIRS :
       Start(l, u, PinRoller(Num(0), Num(MaxLen)), NoLoads)

\* const baseLength = convertLength(beamData.length, beamData.units.length,
\*                                  BASE_UNITS.length);
ToBase ==
    /\ pc = "input"
    /\ result' = [base |-> convertLength64(beamData.length, beamData.units.length,
                                           BASE_UNITS.length)]
    /\ pc' = "base"
    /\ UNCHANGED <<beamData, supports, loads>>

\* events.map(x => convertLength(x, BASE_UNITS.length, beamData.units.length)),
\* whose last element is the length.
ToDisplay ==
    /\ pc = "base"
    /\ result' = [base |-> result.base,
                  display |-> convertLength64(result.base, BASE_UNITS.length,
                                              beamData.units.length)]
    /\ pc' = "display"
    /\ UNCHANGED <<beamData, supports, loads>>

NextRound == ToBase \/ ToDisplay

SpecRound == InitLengths /\ [][NextRound]_vars

(***************************************************************************)
(* The loads form (LoadsSection, src/unnamed/part_001:984-1046).  Its      *)
(* handlers build a new loads object and hand it to the page               *)
(* (onLoadsChange = setLoads), which analyses the beam again on the next   *)
(* render.  A label `P${count}` is modelled as the pair <<"P", count>>;    *)
(* indices count from 1.                                                   *)
(***************************************************************************)
addLoad(ld, type, length) ==
    LET Push(count) ==
            CASE type = "point" ->
                   [label |-> <<"P", count>>, x |-> Div(length, Num(2)), P |-> Num(10)]
              [] type = "angled" ->
                   [label |-> <<"A", count>>, x |-> Div(length, Num(2)), P |-> Num(10),
                    theta_deg |-> Num(45)]
              [] type = "udl" ->
                   [label |-> <<"W", count>>, a |-> Mul(length, Rat(2, 10)),
                    b |-> Mul(length, Rat(8, 10)), w |-> Num(-3)]
              [] type = "uvl" ->
                   [label |-> <<"V", count>>, a |-> Mul(length, Rat(2, 10)),
                    b |-> Mul(length, Rat(8, 10)), w1 |-> Zero, w2 |-> Num(-5)]
              [] type = "moment" ->
                   [label |-> <<"M", count>>, x |-> Div(length, Num(2)), M |-> Num(20)]
    IN  [ld EXCEPT ![type] = Append(@, Push(Len(@) + 1))]

updateLoad(ld, type, index, field, value) ==
    [ld EXCEPT ![type][index][field] = value]

removeLoad(ld, type, index) ==
    [ld EXCEPT ![type] = SubSeq(@, 1, index - 1) \o SubSeq(@, index + 1, Len(@))]

\* One edit of the moment loads (add, quick position L or value of M, remove)
\* and the analysis of the render that follows it.
EditMoments ==
    /\ pc = "done"
    /\ \/ /\ Len(loads.moment) < MaxLoads
          /\ loads' = addLoad(loads, "moment", beamData.length)
       \/ \E i \in 1..Len(loads.moment) :
             loads' = updateLoad(loads, "moment", i, "x", Zero)
       \/ \E i \in 1..Len(loads.moment) :
             loads' = updateLoad(loads, "moment", i, "M", Num(0 - MaxMag))
       \/ \E i \in 1..Len(loads.moment) :
             loads' = removeLoad(loads, "moment", i)
    /\ result' = calculateBeamAnalysis(beamData, supports, loads')
    /\ UNCHANGED <<beamData, supports, pc>>

NextMoments == Analyze \/ EditMoments

\* Beams on a pin at 1 and a roller at the end with at most one point load,
\* then edits of the moment loads.
SpecMoments ==
    /\ \E pl \in OnePoint :
          Start(Num(MaxLen), MetreKilonewton, PinRoller(Num(1), Num(MaxLen)),
                [NoLoads EXCEPT !.point = pl])
    /\ [][NextMoments]_vars

\* The "+" button of a load type (addLoad) or the remove button of one load
\* (removeLoad), then the page's setLoads and the analysis of the new loads.
EditLoads ==
    /\ pc = "done"
    /\ \/ \E type \in {"point", "udl", "moment"} :
             /\ Len(loads[type]) < MaxLoads
             /\ loads' = addLoad(loads, type, beamData.length)
       \/ \E type \in {"point", "udl", "moment"} :
             \E index \in 1..Len(loads[type]) :
                loads' = removeLoad(loads, type, index)
    /\ result' = calculateBeamAnalysis(beamData, supports, loads')
    /\ UNCHANGED <<beamData, supports, pc>>

NextForm == Analyze \/ EditLoads

\* The loads form on a beam without loads, simply supported or cantilevered.
SpecForm ==
    /\ \E sup \in {PinRoller(Num(0), Num(MaxLen)), Fixed("left")} :
          Start(Num(MaxLen), MetreKilonewton, sup, NoLoads)
    /\ [][NextForm]_vars

(***************************************************************************)
(* The legacy entry point: one support entry with its positions and point  *)
(* loads given by id, position and magnitude.                              *)
(***************************************************************************)
calculateBeamAnalysisLegacy(bd, sup, ld) ==
    LET newBeamData == [length |-> bd.length, units |-> MetreKilonewton]
        positions == sup[1].positions
        newSupports ==
            [f \in {"type", "pin_x", "fixed_pos"}
                   \cup (IF Len(positions) >= 2 THEN {"roller_x"} ELSE {}) |->
               CASE f = "type" ->
                      IF sup[1].type = "Pin + Roller" THEN "pin+roller" ELSE "fixed"
                 [] f = "pin_x" -> positions[1]
                 [] f = "roller_x" -> positions[2]
                 [] f = "fixed_pos" ->
                      IF positions[1] = Zero THEN "left" ELSE "right"]
        newLoads ==
            [NoLoads EXCEPT
               !.point = [i \in 1..Len(ld) |->
                            [label |-> ld[i].id, x |-> ld[i].position,
                             P |-> ld[i].magnitude]]]
        Legacy(analysis) ==
            LET vertical == {i \in 1..Len(analysis.reactions) :
                                analysis.reactions[i].type = "vertical"}
                Last(at) == CHOOSE i \in vertical :
                               /\ analysis.reactions[i].at = at
                               /\ \A j \in vertical :
                                     analysis.reactions[j].at = at => j <= i
            IN  [reactions |->
                    [at \in {analysis.reactions[i].at : i \in vertical} |->
                        OrElse(analysis.reactions[Last(at)].R, Zero)],
                 shearForce |->
                    [x |-> analysis.events,
                     y |-> [i \in 1..Len(analysis.V_segments) |->
                              OrElse(analysis.V_segments[i].V_a, Zero)]],
                 bendingMoment |->
                    [x |-> analysis.events,
                     y |-> [i \in 1..Len(analysis.M_segments) |->
                              OrElse(analysis.M_segments[i].M_a, Zero)]],
                 maxShear |-> [position |-> analysis.extrema.positions.Vmax_pos,
                               value |-> analysis.extrema.Vmax],
                 maxMoment |-> [position |-> analysis.extrema.positions.Mmax_pos,
                                value |-> analysis.extrema.Mmax],
                 isValid |-> analysis.isValid,
                 error |-> IF Has(analysis, "error") THEN analysis.error
                           ELSE "undefined"]
    IN  Legacy(calculateBeamAnalysis(newBeamData, newSupports, newLoads))

\* A caller of the legacy entry point with the legacy input it holds.
AnalyzeLegacy ==
    /\ pc = "input"
    /\ result' = calculateBeamAnalysisLegacy(beamData, supports, loads)
    /\ pc' = "done"
    /\ UNCHANGED <<beamData, supports, loads>>

SpecLegacy ==
    /\ \E sup \in {[type |-> "Pin + Roller", positions |-> <<p, r>>] :
                      p \in Positions, r \in Positions}
                  \cup {[type |-> "Fixed", positions |-> <<p>>] :
                           p \in {Zero, Num(MaxLen)}},
          ld \in SeqsUpTo({[id |-> "P", position |-> x, magnitude |-> m] :
                              x \in Positions, m \in Magnitudes}, MaxLoads) :
          /\ beamData = [length |-> Num(MaxLen), units |-> "m"]
          /\ supports = <<sup>>
          /\ loads = ld
          /\ result = NoResult
          /\ pc = "input"
    /\ [][AnalyzeLegacy]_vars

(***************************************************************************)
(* Properties                                                              *)
(***************************************************************************)
Done == pc = "done"

OnlyPointLoads ==
    loads.angled = <<>> /\ loads.udl = <<>> /\ loads.uvl = <<>> /\ loads.moment = <<>>

AllDownward == \A i \in 1..Len(loads.point) : Gt(loads.point[i].P, Zero)

SumOfPointLoads == SumSeq([i \in 1..Len(loads.point) |-> loads.point[i].P])

\* The reported reaction of the given type at the given support.
ReactionAt(type, at) ==
    result.reactions[CHOOSE i \in 1..Len(result.reactions) :
                        result.reactions[i].type = type /\ result.reactions[i].at = at]

\* Pin at x = 0 and roller at x = length.
SimplySupported == supports = PinRoller(Zero, beamData.length)

FixedLeft == supports = Fixed("left")

\* The shape of a rejected analysis: nothing populated, extrema zeroed.
EmptyResult ==
    /\ result.isValid = FALSE
    /\ result.reactions = <<>>
    /\ result.events = <<>>
    /\ result.V_segments = <<>>
    /\ result.M_segments = <<>>
    /\ result.extrema = Extrema(Zero, Zero, Zero, Zero, Zero, Zero, Zero, Zero)
    /\ Has(result, "error")

C2_Case ==
    /\ Done /\ Gt(beamData.length, Zero) /\ SimplySupported
    /\ OnlyPointLoads /\ Len(loads.point) = 1 /\ AllDownward
    /\ Gt(loads.point[1].x, Zero) /\ Lt(loads.point[1].x, beamData.length)

C3_Case ==
    /\ Done /\ Gt(beamData.length, Zero) /\ SimplySupported
    /\ loads.point = <<>> /\ loads.angled = <<>> /\ loads.uvl = <<>> /\ loads.moment = <<>>
    /\ Len(loads.udl) = 1 /\ Gt(loads.udl[1].w, Zero)
    /\ loads.udl[1].a = Zero /\ loads.udl[1].b = beamData.length

C4_FixedReactionUpward ==
    (Done /\ result.isValid /\ FixedLeft /\ OnlyPointLoads /\ AllDownward
          /\ Len(loads.point) >= 1)
    => /\ Gt(ReactionAt("vertical", "fixed").R, Zero)
       /\ Eq(ReactionAt("vertical", "fixed").R, SumOfPointLoads)

\* C5: a beam fixed at the left end with one downward load P at the free end
\* x = L has one linear moment segment, from the fixed reaction moment -PL at
\* x = 0 to 0 at x = L.
C5_CantileverMoment ==
    (Done /\ result.isValid /\ FixedLeft /\ OnlyPointLoads /\ AllDownward
          /\ Len(loads.point) = 1 /\ loads.point[1].x = beamData.length)
    => /\ Len(result.M_segments) = 1
       /\ result.M_segments[1].type = "linear"
       /\ Eq(result.M_segments[1].M_a, ReactionAt("moment", "fixed").M)
       /\ Eq(result.M_segments[1].M_a,
             Neg(Mul(loads.point[1].P, beamData.length)))
       /\ Eq(result.M_segments[Len(result.M_segments)].M_b, Zero)

\* C6: a pin+roller support whose pin_x equals its roller_x (0 included) on a
\* beam of positive length is rejected: isValid = false, no reactions, an
\* error message.
C6_CoincidentSupportsRejected ==
    (Done /\ Gt(beamData.length, Zero) /\ supports.type = "pin+roller"
          /\ Eq(supports.pin_x, supports.roller_x))
    => /\ result.isValid = FALSE
       /\ result.reactions = <<>>
       /\ Has(result, "error")

\* C7: every pin+roller placement with 0 <= pin_x, roller_x <= length and
\* pin_x # roller_x is accepted, the pin right of the roller included.
C7_DistinctSupportsAccepted ==
    (Done /\ Gt(beamData.length, Zero) /\ supports.type = "pin+roller"
          /\ Ge(supports.pin_x, Zero) /\ Le(supports.pin_x, beamData.length)
          /\ Ge(supports.roller_x, Zero) /\ Le(supports.roller_x, beamData.length)
          /\ ~Eq(supports.pin_x, supports.roller_x))
    => result.isValid = TRUE

\* The input is one calculateBeamAnalysis rejects: the length first, then the
\* support placement.
LengthRejected == Le(beamData.length, Zero)

SupportsRejected ==
    /\ ~LengthRejected
    /\ ~validateSupports(
           convertSupportsToBaseUnits(supports, beamData.units.length),
           convertLength(beamData.length, beamData.units.length, BASE_UNITS.length))

\* C8: a rejected input (length <= 0, checked first, or an invalid support
\* placement) yields isValid = false, empty reactions, events and segments,
\* zeroed extrema and an error string; a valid result carries no error.
C8_AllOrNothing ==
    Done =>
      /\ LengthRejected =>
           EmptyResult /\ result.error = "Beam length must be greater than 0"
      /\ SupportsRejected =>
           EmptyResult /\ result.error = "Invalid support configuration"
      /\ result.isValid = FALSE => EmptyResult
      /\ result.isValid = TRUE => ~Has(result, "error")
      /\ result.isValid = TRUE => ~LengthRejected /\ ~SupportsRejected

C8_Witness ==
    /\ Done /\ SupportsRejected /\ EmptyResult
    /\ Len(loads.point) >= 1

\* C9: in a valid analysis, M_b of a moment segment equals M_a of the next
\* one whenever no applied moment load lies at their shared boundary.
C9_MomentContinuous ==
    (Done /\ result.isValid)
    => \A i \in 1..(Len(result.M_segments) - 1) :
          (\A j \in 1..Len(loads.moment) :
              ~Eq(loads.moment[j].x, result.M_segments[i].b))
          => Eq(result.M_segments[i].M_b, result.M_segments[i + 1].M_a)

\* A support of the input is located at x.
SupportAt(x) ==
    IF supports.type = "pin+roller"
    THEN Eq(supports.pin_x, x) \/ Eq(supports.roller_x, x)
    ELSE Eq(IF supports.fixed_pos = "right" THEN beamData.length ELSE Zero, x)

\* C10: in a valid analysis, V_b of a shear segment differs from V_a of the
\* next one only if a point load, an angled load or a support lies at their
\* shared boundary.
C10_ShearJumpsOnlyAtLoads ==
    (Done /\ result.isValid)
    => \A i \in 1..(Len(result.V_segments) - 1) :
          ~Eq(result.V_segments[i].V_b, result.V_segments[i + 1].V_a)
          => \/ \E j \in 1..Len(loads.point) :
                   Eq(loads.point[j].x, result.V_segments[i].b)
             \/ \E j \in 1..Len(loads.angled) :
                   Eq(loads.angled[j].x, result.V_segments[i].b)
             \/ SupportAt(result.V_segments[i].b)

\* Every position generateEvents has to report for the input of the state.
EventPositions ==
    {Zero, beamData.length}
    \cup (IF supports.type = "pin+roller" THEN {supports.pin_x, supports.roller_x}
          ELSE {IF supports.fixed_pos = "right" THEN beamData.length ELSE Zero})
    \cup {loads.point[i].x : i \in 1..Len(loads.point)}
    \cup {loads.angled[i].x : i \in 1..Len(loads.angled)}
    \cup {loads.moment[i].x : i \in 1..Len(loads.moment)}
    \cup {loads.udl[i].a : i \in 1..Len(loads.udl)}
    \cup {loads.udl[i].b : i \in 1..Len(loads.udl)}
    \cup {loads.uvl[i].a : i \in 1..Len(loads.uvl)}
    \cup {loads.uvl[i].b : i \in 1..Len(loads.uvl)}

\* C11: generateEvents returns a strictly increasing sequence whose values
\* are exactly 0, the length, the support positions and every load boundary.
C11_EventsSortedAndComplete ==
    pc = "events"
    => /\ \A i \in 1..(Len(result.events) - 1) :
             Lt(result.events[i], result.events[i + 1])
       /\ {result.events[i] : i \in 1..Len(result.events)} = EventPositions

C11_Witness ==
    /\ pc = "events"
    /\ Len(result.events) >= 4
    /\ Lt(result.events[1], Zero)
    /\ Gt(result.events[Len(result.events)], beamData.length)
    /\ Len(loads.moment) = 2
    /\ Gt(loads.moment[1].x, loads.moment[2].x)

\* C12: generateEvents called on the same loads listed in another order, or
\* called again on the same input, returns the same event sequence.
C12_EventsOrderIndependent ==
    pc = "again" => result.events = result.first

C12_Witness ==
    /\ pc = "again"
    /\ loads # result.input
    /\ Len(loads.point) = 2
    /\ loads.point[1].x # loads.point[2].x
    /\ result.events = result.first
    /\ Len(result.events) >= 4

\* A second call on the unchanged input.
C12_WitnessSameInput ==
    pc = "again" /\ loads = result.input /\ Len(result.events) >= 4

\* The segments partition [0, length]: they start at 0, end at the length,
\* have a < b each and meet end to start.
Partition(segments) ==
    /\ Len(segments) >= 1
    /\ Eq(segments[1].a, Zero)
    /\ Eq(segments[Len(segments)].b, beamData.length)
    /\ \A i \in 1..Len(segments) : Lt(segments[i].a, segments[i].b)
    /\ \A i \in 1..(Len(segments) - 1) : Eq(segments[i].b, segments[i + 1].a)

\* C13: in every valid analysis the shear segments and the moment segments
\* partition [0, length], whatever load positions the caller supplied.
C13_SegmentsPartitionBeam ==
    (Done /\ result.isValid)
    => Partition(result.V_segments) /\ Partition(result.M_segments)

\* c0 + c1 dx + c2 dx^2 + c3 dx^3 for as many coefficients as there are.
RECURSIVE PolyFrom(_, _, _)
PolyFrom(coeffs, k, dx) ==
    IF k > Len(coeffs) THEN Zero
    ELSE Add(coeffs[k], Mul(dx, PolyFrom(coeffs, k + 1, dx)))

PolyAt(coeffs, dx) == PolyFrom(coeffs, 1, dx)

\* The coefficients of a segment describe it between its two end values.
CoeffsDescribe(segment, startValue, endValue) ==
    /\ Len(segment.coeffs) >= 1
    /\ Eq(segment.coeffs[1], startValue)
    /\ Eq(PolyAt(segment.coeffs, Sub(segment.b, segment.a)), endValue)

\* C14: in every segment of a valid result, in every unit pair, coeffs[0] is
\* the start value of the segment and the polynomial at dx = b - a is its end
\* value.
C14_CoeffsInDisplayUnits ==
    (Done /\ result.isValid)
    => /\ \A i \in 1..Len(result.V_segments) :
             CoeffsDescribe(result.V_segments[i], result.V_segments[i].V_a,
                            result.V_segments[i].V_b)
       /\ \A i \in 1..Len(result.M_segments) :
             CoeffsDescribe(result.M_segments[i], result.M_segments[i].M_a,
                            result.M_segments[i].M_b)

\* The moment segment M is the antiderivative of the shear segment V of the
\* same interval, starting from the value M_a of M.
Antiderivative(M, V) ==
    /\ M.a = V.a /\ M.b = V.b
    /\ Len(M.coeffs) >= 1
    /\ convertMoment(M.coeffs[1], beamData.units) = M.M_a
    /\ V.type = "const" =>
          /\ M.type = "linear"
          /\ Len(V.coeffs) = 1 /\ Len(M.coeffs) = 2
          /\ Eq(M.coeffs[2], V.coeffs[1])
    /\ V.type = "linear" =>
          /\ M.type = "quadratic"
          /\ Len(V.coeffs) = 2 /\ Len(M.coeffs) = 3
          /\ Eq(M.coeffs[2], V.coeffs[1])
          /\ Eq(M.coeffs[3], Div(V.coeffs[2], Num(2)))
    /\ V.type = "quadratic" =>
          /\ M.type = "cubic"
          /\ Len(V.coeffs) = 3 /\ Len(M.coeffs) = 4
          /\ Eq(M.coeffs[2], V.coeffs[1])
          /\ Eq(M.coeffs[3], Div(V.coeffs[2], Num(2)))
          /\ Eq(M.coeffs[4], Div(V.coeffs[3], Num(3)))

\* C15: there are as many moment segments as shear segments and each moment
\* segment is the antiderivative of the shear segment of its interval:
\* const gives linear [M_a, s0], linear gives quadratic [M_a, s0, s1/2],
\* quadratic gives cubic [M_a, s0, s1/2, s2/3].
C15_MomentIntegratesShear ==
    (Done /\ result.isValid)
    => /\ Len(result.M_segments) = Len(result.V_segments)
       /\ \A i \in 1..Len(result.V_segments) :
             /\ result.V_segments[i].type \in {"const", "linear", "quadratic"}
             /\ Antiderivative(result.M_segments[i], result.V_segments[i])

C15_Witness ==
    /\ Done /\ result.isValid
    /\ \E i \in 1..Len(result.V_segments), j \in 1..Len(result.V_segments),
          k \in 1..Len(result.V_segments) :
          /\ result.V_segments[i].type = "quadratic"
          /\ ~Eq(result.M_segments[i].coeffs[3], Zero)
          /\ ~Eq(result.M_segments[i].coeffs[4], Zero)
          /\ result.V_segments[j].type = "const"
          /\ ~Eq(result.M_segments[j].coeffs[2], Zero)
          /\ result.V_segments[k].type = "const" /\ k # j

RECURSIVE SumOver(_, _, _)
\* The sum of Count(segments[i]) over the first k segments.
SumOver(Count(_), segments, k) ==
    IF k = 0 THEN 0 ELSE SumOver(Count, segments, k - 1) + Count(segments[k])

\* The point counts the claim states for a shear and for a moment segment.
StatedShearCount(segment) ==
    IF segment.type = "const" THEN 2 ELSE IF segment.type = "linear" THEN 10 ELSE 20

StatedMomentCount(segment) ==
    IF segment.type = "linear" THEN 10 ELSE IF segment.type = "quadratic" THEN 20 ELSE 30

\* C18: before the near-duplicates are collapsed, generateShearForceData has
\* produced 2, 10 or 20 points for each const, linear or quadratic segment
\* and generateBendingMomentData 10, 20 or 30 points for each linear,
\* quadratic or cubic segment.
C18_SamplerPointCounts ==
    (pc = "sampled" /\ result.analysis.isValid)
    => LET V == result.analysis.V_segments
           M == result.analysis.M_segments
       IN  /\ Len(shearDataPoints(V, Len(V))) = SumOver(StatedShearCount, V, Len(V))
           /\ Len(momentDataPoints(M, Len(M))) = SumOver(StatedMomentCount, M, Len(M))

\* The counts of the loops i = 0, ..., numPoints: one more point each.
C18_CountsOfTheLoops ==
    (pc = "sampled" /\ result.analysis.isValid)
    => LET V == result.analysis.V_segments
           M == result.analysis.M_segments
       IN  /\ Len(shearDataPoints(V, Len(V))) = SumOver(StatedShearCount, V, Len(V)) + Len(V)
           /\ Len(momentDataPoints(M, Len(M))) = SumOver(StatedMomentCount, M, Len(M)) + Len(M)

\* The points of a shear segment at which its polynomial is examined, as
\* distances from a: both ends, the middle and, on a quadratic segment, the
\* stationary point -c1 / (2 c2) where it lies inside the segment.
ExaminedDistances(segment) ==
    LET length == Sub(segment.b, segment.a)
        Inside(dx) == IF Gt(dx, Zero) /\ Lt(dx, length) THEN {dx} ELSE {}
    IN  {Zero, length, Div(length, Num(2))}
        \cup (IF Len(segment.coeffs) = 3 /\ ~Eq(segment.coeffs[3], Zero)
              THEN Inside(Div(Neg(segment.coeffs[2]), Mul(Num(2), segment.coeffs[3])))
              ELSE {})

\* The shear polynomial of a segment at the distance dx from its start, in
\* the units of the reported extrema.
ShearPolynomial(segment, dx) ==
    convertForce(PolyAt(segment.coeffs,
                        convertLength(dx, beamData.units.length, BASE_UNITS.length)),
                 BASE_UNITS.force, beamData.units.force)

\* C17: Vmax is at least, and Vmin at most, the value of the shear polynomial
\* at every point of every shear segment, not only at the events.
C17_ShearExtremaOverFullDomain ==
    (Done /\ result.isValid)
    => \A i \in 1..Len(result.V_segments) :
          \A dx \in ExaminedDistances(result.V_segments[i]) :
             /\ Ge(result.extrema.Vmax, ShearPolynomial(result.V_segments[i], dx))
             /\ Le(result.extrema.Vmin, ShearPolynomial(result.V_segments[i], dx))

InteriorPoints(segment) ==
    IF segment.type = "linear" /\ Lt(Mul(segment.V_a, segment.V_b), Zero)
    THEN {zeroShearX(segment)}
    ELSE IF segment.type = "quadratic" THEN {midPoint(segment)} ELSE {}

\* calculateMomentAtPoint against the polynomial of the moment segment, at the
\* interior points of the segments the analysis of (bd, sup, ld) goes through.
InteriorMomentsAgree(bd, sup, ld) ==
    LET Agree(baseLoads, reactions, V_segments, M_segments) ==
            \A i \in 1..Len(V_segments) :
               \A x \in InteriorPoints(V_segments[i]) :
                  Eq(calculateMomentAtPoint(x, baseLoads, reactions),
                     PolyAt(M_segments[i].coeffs, Sub(x, M_segments[i].a)))
        WithShear(baseLength, baseLoads, reactions, events, V_segments) ==
            Agree(baseLoads, reactions, V_segments,
                  calculateMomentSegments(V_segments, baseLoads, reactions,
                                          events, baseLength))
        WithReactions(baseLength, baseLoads, reactions, events) ==
            WithShear(baseLength, baseLoads, reactions, events,
                      calculateShearSegments(baseLoads, reactions, events, baseLength))
        InBaseUnits(baseLength, baseLoads, baseSupports) ==
            WithReactions(baseLength, baseLoads,
                          calculateReactions(baseLoads, baseSupports, baseLength),
                          generateEvents(baseLoads, baseSupports, baseLength))
    IN  InBaseUnits(convertLength(bd.length, bd.units.length, BASE_UNITS.length),
                    convertLoadsToBaseUnits(ld, bd.units),
                    convertSupportsToBaseUnits(sup, bd.units.length))

\* C20: at every interior point findExtrema examines (the zero-shear crossing
\* of a linear shear segment, the midpoint of a quadratic one),
\* calculateMomentAtPoint returns the value of the moment segment's polynomial
\* at that point, for pin+roller and fixed supports alike.
C20_InteriorMomentMatchesSegment ==
    (Done /\ result.isValid) => InteriorMomentsAgree(beamData, supports, loads)


\* |x - y| <= |y| / inv, for two binary64 numbers of the same sign
WithinRelative(x, y, inv) ==
    LET Close(a, b) ==
            ~BigLess(b, BigMul(IF BigLess(a, b) THEN BigSub(b, a) ELSE BigSub(a, b),
                               BigTrim(<<inv % LimbBase, inv \div LimbBase>>)))
        Aligned(e) == Close(BigShift(x.m, x.e - e), BigShift(y.m, y.e - e))
    IN  x.neg = y.neg /\ Aligned(IF x.e < y.e THEN x.e ELSE y.e)

\* C16 as stated: a length converted from its unit (m, mm or ft) to the base
\* unit and back is the original number.
C16_LengthRoundTripExact ==
    pc = "display" => result.display = beamData.length

\* C16: a length converted from its unit (m, mm or ft) to the base unit and
\* back is the original number within a relative error of 1e-9.
C16_LengthRoundTripWithinTolerance ==
    pc = "display" => WithinRelative(result.display, beamData.length, 1000000000)

C16_Witness ==
    /\ pc = "display"
    /\ beamData.units.length = "ft"
    /\ result.base # beamData.length
    /\ result.display # beamData.length
    /\ WithinRelative(result.display, beamData.length, 1000000000)


\* The end values of the segments in the order findExtrema scans them: the
\* start and the end of the first segment, then of the second, and so on.
EndsInScanOrder(segments, va, vb) ==
    [j \in 1..(2 * Len(segments)) |->
       IF j % 2 = 1
       THEN [value |-> segments[(j + 1) \div 2][va], pos |-> segments[(j + 1) \div 2].a]
       ELSE [value |-> segments[j \div 2][vb], pos |-> segments[j \div 2].b]]

\* The extreme value is the value of some end, and the recorded position is
\* the position of the first end in scan order with that value.
AttainedFirstAt(ends, extreme, pos) ==
    \E j \in 1..Len(ends) :
       /\ Eq(ends[j].value, extreme)
       /\ \A k \in 1..(j - 1) : ~Eq(ends[k].value, extreme)
       /\ Eq(ends[j].pos, pos)

WithinExtrema(ends, min, max) ==
    \A j \in 1..Len(ends) : Le(min, ends[j].value) /\ Le(ends[j].value, max)

\* C21: in a valid analysis every V_a and V_b lies between Vmin and Vmax and
\* every M_a and M_b between Mmin and Mmax; Vmax and Vmin are the values of
\* segment ends, and their recorded positions are those of the first end, in
\* scan order, that has the value.
C21_ExtremaBoundSegmentEnds ==
    (Done /\ result.isValid)
    => /\ WithinExtrema(EndsInScanOrder(result.V_segments, "V_a", "V_b"),
                        result.extrema.Vmin, result.extrema.Vmax)
       /\ WithinExtrema(EndsInScanOrder(result.M_segments, "M_a", "M_b"),
                        result.extrema.Mmin, result.extrema.Mmax)
       /\ AttainedFirstAt(EndsInScanOrder(result.V_segments, "V_a", "V_b"),
                          result.extrema.Vmax, result.extrema.positions.Vmax_pos)
       /\ AttainedFirstAt(EndsInScanOrder(result.V_segments, "V_a", "V_b"),
                          result.extrema.Vmin, result.extrema.positions.Vmin_pos)


\* The classification of one shear segment against the distributed loads
\* that overlap its open interval (a, b).
ClassifiedFrom(segment, ld) ==
    LET udls == {i \in 1..Len(ld.udl) : Overlaps(ld.udl[i], segment.a, segment.b)}
        uvls == {i \in 1..Len(ld.uvl) : Overlaps(ld.uvl[i], segment.a, segment.b)}
    IN  /\ (udls = {} /\ uvls = {})
           => segment.type = "const" /\ segment.coeffs = <<segment.V_a>>
        /\ uvls = {}
           => \A i \in udls :
                 /\ segment.type = "linear"
                 /\ segment.coeffs = <<segment.V_a, Neg(ld.udl[i].w)>>
        /\ uvls # {} => segment.type = "quadratic" /\ Len(segment.coeffs) = 3
        /\ Len(segment.coeffs) = CASE segment.type = "const" -> 1
                                   [] segment.type = "linear" -> 2
                                   [] segment.type = "quadratic" -> 3
                                   [] OTHER -> 0

\* The shear segments calculateShearSegments builds in the analysis of
\* (bd, sup, ld), each classified from the loads in base units.
ShearSegmentsClassified(bd, sup, ld) ==
    LET Each(baseLoads, V_segments) ==
            \A i \in 1..Len(V_segments) : ClassifiedFrom(V_segments[i], baseLoads)
        WithReactions(baseLength, baseLoads, reactions, events) ==
            Each(baseLoads,
                 calculateShearSegments(baseLoads, reactions, events, baseLength))
        InBaseUnits(baseLength, baseLoads, baseSupports) ==
            WithReactions(baseLength, baseLoads,
                          calculateReactions(baseLoads, baseSupports, baseLength),
                          generateEvents(baseLoads, baseSupports, baseLength))
    IN  InBaseUnits(convertLength(bd.length, bd.units.length, BASE_UNITS.length),
                    convertLoadsToBaseUnits(ld, bd.units),
                    convertSupportsToBaseUnits(sup, bd.units.length))

\* C22: a shear segment is const with coeffs [V_a] when no distributed load
\* overlaps its open interval, linear with coeffs [V_a, -w] when a UDL of
\* intensity w overlaps it and no UVL does, quadratic with three coefficients
\* when a UVL overlaps it; the number of coefficients is 1, 2 or 3 by kind.
C22_ShearSegmentClassification ==
    (Done /\ result.isValid) => ShearSegmentsClassified(beamData, supports, loads)


\* The vertical reactions of an analysis, as reported.
VerticalReactions(analysis) ==
    SelectSeq(analysis.reactions, LAMBDA reaction : reaction.type = "vertical")

\* C23: on a pin+roller beam an edit of the moment loads (one added, changed
\* or removed) leaves the vertical reactions at the pin and the roller as
\* they were.
C23_MomentsLeaveReactions ==
    [][(pc = "done" /\ supports.type = "pin+roller")
       => VerticalReactions(result') = VerticalReactions(result)]_vars

C23_Witness ==
    /\ pc = "done"
    /\ supports.type = "pin+roller"
    /\ Len(loads.moment) = MaxLoads
    /\ \E i \in 1..Len(loads.moment) : loads.moment[i].M # Num(20)
    /\ \E i \in 1..Len(loads.moment) : loads.moment[i].x = Zero
    /\ Len(VerticalReactions(result)) = 2
    /\ \A i \in 1..2 : Gt(VerticalReactions(result)[i].R, Zero)


\* A UVL whose end intensities cancel: |w1 + w2| <= 1e-10.
Cancelling(load) == ~GtEps(Abs(Add(load.w1, load.w2)))

\* The reactions reported for (bd, sup, ld) are finite numbers and are the
\* ones calculateReactions gives for the loads without the cancelling UVLs.
ReportedAsWithout(reported, bd, sup, ld) ==
    LET Without(uvl) == SelectSeq(uvl, LAMBDA load : ~Cancelling(load))
        Numbers(reaction) ==
            \A f \in DOMAIN reaction \cap {"R", "M", "H"} : IsFinite(reaction[f])
    IN  /\ \A i \in 1..Len(reported) : Numbers(reported[i])
        /\ reported
           = convertReactionsToDisplayUnits(
                 calculateReactions(
                     convertLoadsToBaseUnits([ld EXCEPT !.uvl = Without(@)], bd.units),
                     convertSupportsToBaseUnits(sup, bd.units.length),
                     convertLength(bd.length, bd.units.length, BASE_UNITS.length)),
                 bd.units)

\* C24: a UVL with |w1 + w2| <= 1e-10 is skipped by the reaction solver, on
\* pin+roller and on fixed supports: the reactions are those of the beam
\* without the load, and they are finite (nothing was divided by w1 + w2).
C24_CancellingUvlSkipped ==
    (Done /\ result.isValid)
    => ReportedAsWithout(result.reactions, beamData, supports, loads)

C24_Witness ==
    /\ Done /\ result.isValid
    /\ supports.type = "fixed"
    /\ Len(loads.uvl) = 1 /\ Cancelling(loads.uvl[1]) /\ loads.uvl[1].w1 # Zero
    /\ Len(loads.point) = 1
    /\ \E i \in 1..Len(result.reactions) :
          result.reactions[i].type = "moment" /\ ~Eq(result.reactions[i].M, Zero)

C24_WitnessPinRoller ==
    /\ Done /\ result.isValid
    /\ supports.type = "pin+roller"
    /\ Len(loads.uvl) = 1 /\ Cancelling(loads.uvl[1]) /\ loads.uvl[1].w1 # Zero
    /\ Len(loads.point) = 1


\* Consecutive points are more than 0.001 apart in x, the later one to the right.
Spaced(points) ==
    \A k \in 2..Len(points) : Gt(Sub(points[k].x, points[k - 1].x), Rat(1, 1000))

\* C25: in the output of generateShearForceData and of
\* generateBendingMomentData any two consecutive points have x values more
\* than 0.001 apart, so that x increases strictly along the output.
C25_SampledPointsSpaced ==
    pc = "sampled" => Spaced(result.shearForce) /\ Spaced(result.bendingMoment)

\* A valid analysis with a segment a hundredth long, where points other than
\* the repeated segment boundaries were removed.
C25_Witness ==
    /\ pc = "sampled" /\ result.analysis.isValid
    /\ \E i \in 1..Len(loads.point) : loads.point[i].x = Rat(1, 100)
    /\ Len(result.shearForce) >= 2
    /\ Len(result.shearForce)
         < Len(shearDataPoints(result.analysis.V_segments,
                               Len(result.analysis.V_segments)))
           - (Len(result.analysis.V_segments) - 1)


\* A pin at 0 and a roller at the end of the beam, and no loads other than
\* point loads and applied moments, all of them inside the span.
SimpleSpanCase ==
    /\ supports.type = "pin+roller"
    /\ Has(supports, "pin_x") /\ Eq(supports.pin_x, Zero)
    /\ Has(supports, "roller_x") /\ Eq(supports.roller_x, beamData.length)
    /\ loads.angled = <<>> /\ loads.udl = <<>> /\ loads.uvl = <<>>
    /\ \A i \in 1..Len(loads.point) :
          Gt(loads.point[i].x, Zero) /\ Lt(loads.point[i].x, beamData.length)
    /\ \A i \in 1..Len(loads.moment) :
          Gt(loads.moment[i].x, Zero) /\ Lt(loads.moment[i].x, beamData.length)

\* C26: on a beam with a pin at 0 and a roller at its end, under point loads
\* and applied moments inside the span, the moment diagram closes: M_a of
\* the first segment and M_b of the last are 0.
C26_MomentDiagramCloses ==
    (Done /\ result.isValid /\ SimpleSpanCase)
    => /\ Eq(result.M_segments[1].M_a, Zero)
       /\ Eq(result.M_segments[Len(result.M_segments)].M_b, Zero)


\* Every number of an analysis is finite: reactions, segment end values,
\* coefficients and extrema.
AnalysisFinite(analysis) ==
    /\ \A i \in 1..Len(analysis.reactions) :
          IF analysis.reactions[i].type = "moment"
          THEN IsFinite(analysis.reactions[i].M)
          ELSE IsFinite(analysis.reactions[i].R)
    /\ \A i \in 1..Len(analysis.V_segments) :
          LET segment == analysis.V_segments[i]
          IN  /\ IsFinite(segment.V_a) /\ IsFinite(segment.V_b)
              /\ \A k \in 1..Len(segment.coeffs) : IsFinite(segment.coeffs[k])
    /\ \A i \in 1..Len(analysis.M_segments) :
          LET segment == analysis.M_segments[i]
          IN  /\ IsFinite(segment.M_a) /\ IsFinite(segment.M_b)
              /\ \A k \in 1..Len(segment.coeffs) : IsFinite(segment.coeffs[k])
    /\ IsFinite(analysis.extrema.Vmax) /\ IsFinite(analysis.extrema.Vmin)
    /\ IsFinite(analysis.extrema.Mmax) /\ IsFinite(analysis.extrema.Mmin)

\* C27: for every valid input, every reaction, segment value, coefficient
\* and extremum of the analysis is finite (no division by zero), UVLs with
\* w1 + w2 = 0 included.
C27_AnalysisFinite ==
    (Done /\ result.isValid) => AnalysisFinite(result)


\* The vertical reactions balance the point loads about supports at p and r.
SolvedFor(p, r) ==
    /\ Eq(Add(ReactionAt("vertical", "pin").R, ReactionAt("vertical", "roller").R),
          SumOfPointLoads)
    /\ Eq(Mul(ReactionAt("vertical", "roller").R, Sub(r, p)),
          SumSeq([i \in 1..Len(loads.point) |->
                     Mul(loads.point[i].P, Sub(loads.point[i].x, p))]))

\* C28: the pin reaction is reported at the pin_x given and the roller
\* reaction at the roller_x given, and the reactions are those of supports
\* at these positions, a roller at x = 0 included (pin_x # roller_x).
C28_ReactionsAtGivenSupports ==
    (Done /\ result.isValid /\ supports.type = "pin+roller"
          /\ ~Eq(supports.pin_x, supports.roller_x))
    => /\ Eq(ReactionAt("vertical", "pin").x, supports.pin_x)
       /\ Eq(ReactionAt("vertical", "roller").x, supports.roller_x)
       /\ SolvedFor(supports.pin_x, supports.roller_x)


\* C29: in a legacy result, shearForce.x and shearForce.y have the same
\* number of entries, and so have bendingMoment.x and bendingMoment.y.
C29_LegacySeriesAligned ==
    (pc = "done")
    => /\ Len(result.shearForce.x) = Len(result.shearForce.y)
       /\ Len(result.bendingMoment.x) = Len(result.bendingMoment.y)


\* C30: after any sequence of addLoad and removeLoad, the labels of the
\* loads of one type are pairwise distinct.
C30_LabelsDistinct ==
    \A type \in DOMAIN loads :
       \A i, j \in 1..Len(loads[type]) :
          i # j => loads[type][i].label # loads[type][j].label

====
